---- MODULE Spec2Model ----
(***************************************************************************)
(* State-machine model of src/extensions/discord-notify/index.ts: the      *)
(* bridge between a pi coding-agent session and a Discord thread.          *)
(*                                                                         *)
(* JavaScript runs the extension on one event loop: a handler runs without *)
(* interruption up to its next `await`, and other callbacks run while it   *)
(* is suspended.  Every action below is one such uninterrupted segment of  *)
(* a handler; a suspended handler is a record in `tasks` whose pc names    *)
(* the await it is parked on.  What the platform answers (a login, a       *)
(* fetch, a create, a send, a transcription) is chosen with \E.            *)
(***************************************************************************)
EXTENDS Integers, Sequences, FiniteSets, Bags, TLC

\* ---- bounds of the model ------------------------------------------------
NumSessions == 2    \* session files the host can switch between
MaxClients  == 2    \* discord.js Client objects constructed in one run
MaxThreads  == 2    \* thread ids the platform hands out in one run
MaxTasks    == 2    \* handlers suspended at an await at the same time
MaxMsgs     == 2    \* inbound chat messages in one run
MaxImgs     == 2    \* image attachments of one chat message
MaxNames    == 2    \* names the host gives a session
MaxLen      == 4    \* characters of a text handed to truncateText
MaxEntries  == 6    \* messages on the branch that generateThreadName reads

\* ---- values --------------------------------------------------------------
Null        == 0    \* JavaScript null / undefined / a missing map entry
SessionKeys == 1..NumSessions
ClientIds   == 1..MaxClients
ThreadIds   == 1..MaxThreads
Names       == 1..MaxNames

MinDurationMs == 15000   \* config.minDurationMs written by /discord-setup
CharBudget    == 2000    \* let charBudget = 2000, line 563
SnippetCap    == 400     \* Math.min(400, charBudget), line 581

NoConfig == [present |-> FALSE, enabled |-> FALSE]
SetupConfig == [present |-> TRUE, enabled |-> TRUE]

VARIABLES
    \* -- extension state (closure variables of the default export) --
    config, threads, mutedThreads, watchedThreads,
    client, botUserId, isForum, isAgentBusy,
    currentSessionFile, lastKnownSessionName, threadAutoNamed,
    \* -- the three files of ~/.pi/agent --
    configFile, threadsFile, mutedFile,
    \* -- host (pi) --
    token, sessionFile, sessionName, phase, room, inbox, agentTurn,
    \* -- platform (Discord) --
    clients, thr, chanType, createdFor, thrName,
    \* -- the bag of suspended handlers --
    tasks,
    \* -- observations: what the last step returned / what was sent --
    sbRet, goctRet, sent, turn, delivered, nextMsg, muteDone, warned, crashed,
    \* -- module-level state of the voice transcription, lines 157-158, the
    \* temporary files of transcribeVoiceMessage and the loads it started --
    transcriber, transcriberLoading, tmpFiles, loads,
    \* -- a call of a pure helper: its arguments and what it returned --
    callArgs, callRet,
    \* -- what line 301 loaded when the process started --
    bootThreads

extVars   == <<config, threads, mutedThreads, watchedThreads, client, botUserId,
               isForum, isAgentBusy, currentSessionFile, lastKnownSessionName,
               threadAutoNamed>>
fileVars  == <<configFile, threadsFile, mutedFile>>
hostVars  == <<token, sessionFile, sessionName, phase, room, inbox, agentTurn>>
platVars  == <<clients, thr, chanType, createdFor, thrName>>
obsVars   == <<sbRet, goctRet, sent, turn, delivered, nextMsg, muteDone, warned, crashed>>
libVars   == <<transcriber, transcriberLoading, tmpFiles, loads, callArgs, callRet,
               bootThreads>>
vars      == <<extVars, fileVars, hostVars, platVars, tasks, obsVars, libVars>>

\* No helper was called.
NoCall == [fn |-> "-"]

\* ---- suspended handlers --------------------------------------------------
\* kind: the handler; pc: the await it is parked on; sk: the session key the
\* call captured; th: the thread id in hand; ex: notify's existingThreadId;
\* emb: a firstEmbed was passed; txt: there is text (lastMessage / message
\* content); duration: of the agent turn; c: the Client this startBot call
\* constructed; via: the Client whose channel fetch it awaits; n: arrival
\* number of the chat message; voice / imgs / k / contentParts: voice
\* attachment, image attachments, how many of them the loop has been through,
\* the parts collected; failed: the step of the transcription that failed
\* ("none": it produced text); emoji: the reaction; bot: user.bot of the one
\* who reacted; got: how often the platform has taken the embed that this
\* handler's notify carries (as a thread's first message or as a message); ld: what
\* getTranscriber found in transcriberLoading when this handler called it; nm: the thread name the handler has made (makeThreadName, or
\* the name a rename carries).
Idle == [kind |-> "idle", pc |-> "-", sk |-> Null, th |-> Null, ex |-> Null,
         emb |-> FALSE, txt |-> FALSE, duration |-> 0, c |-> Null, via |-> Null,
         n |-> 0, voice |-> FALSE, imgs |-> 0, k |-> 0, contentParts |-> <<>>,
         failed |-> "-", emoji |-> "-", bot |-> FALSE, got |-> 0, ld |-> "-",
         nm |-> "-"]

\* `tasks` is the bag of the suspended handlers.  An action takes the handler
\* i it resumes out of the bag; a handler that starts has i = Idle.
Running   == BagToSet(tasks)
\* The host and the gateway start a handler while fewer than `room` are
\* suspended, and the gateway brings `inbox` chat messages in a run.
Starts(i) == i = Idle /\ BagCardinality(tasks) < room
Take(i)   == IF i = Idle THEN tasks ELSE tasks (-) SetToBag({i})
Park(i, t) == tasks' = Take(i) (+) SetToBag({t})
Done(i)    == tasks' = Take(i)

\* What startBot / getOrCreateThread answered in this step: r is the result
\* ("pending": the call went on to an await), at is where in the function the
\* step was ("call": the step that made the call), th the thread returned, by
\* the handler that called, cl what `client` was when startBot was called.
NoRet == [r |-> "-", at |-> "-", th |-> Null, by |-> "-", cl |-> Null]
SbRet(r, at, by, cl) == [r |-> r, at |-> at, th |-> Null, by |-> by, cl |-> cl]
GoctRet(r, at, th, by) == [r |-> r, at |-> at, th |-> th, by |-> by, cl |-> Null]

\* ---- pure helpers of the extension ---------------------------------------
\* loadConfig / loadThreads / loadMuted: what the constructor reads.
EmptyThreads == [s \in SessionKeys |-> Null]
EmptyWatched == [t \in ThreadIds |-> Null]

\* JavaScript strings are sequences of characters.
Chars == {"a", "b"}
Texts == UNION {[1..n -> Chars] : n \in 0..MaxLen}
Ellipsis == <<".", ".", ".">>
\* text.slice(0, end): a negative end counts from the end of the text, and
\* both ends are clamped to the text.
Slice0(text, end) ==
    LET e == IF end < 0 THEN (IF Len(text) + end < 0 THEN 0 ELSE Len(text) + end)
             ELSE IF end > Len(text) THEN Len(text) ELSE end
    IN  SubSeq(text, 1, e)
\* truncateText, lines 135-138
TruncateText(text, maxLen) ==
    IF Len(text) <= maxLen THEN text
    ELSE Slice0(text, maxLen - 3) \o Ellipsis

\* saveMuted, lines 129-131: the file holds the array of the Set's items.
\* A save that writes an empty array, to test C29 against.
SaveMutedEmpty(muted) == {}

SaveMuted(muted) == {th \in ThreadIds : th \in muted}

\* line 795: the attention embed is due
\* A test that leaves out the minimum itself, to test C18 against.
EmbedDueStrict(duration, minDurationMs) == duration > minDurationMs

EmbedDue(duration, minDurationMs) == duration >= minDurationMs

\* pi.getSessionName(): the name of the host's current session, or null
GetSessionName == sessionName[sessionFile]
\* makeThreadName, lines 521-529: which name a thread gets.  "session":
\* `{project} — {session name}`; "new": `{project} — new session`.  The other
\* names a thread can carry are "manual" (/discord-rename with a name) and
\* "generated" (by the language model).
MakeThreadName == IF GetSessionName # Null THEN "session" ELSE "new"
\* the session the host opens first
FirstSession == CHOOSE s \in SessionKeys : \A r \in SessionKeys : s <= r

Connected == client # Null /\ clients[client] = "ready"
\* thread th exists on the platform
Posted(th) == thr[th] \in {"open", "archived"}
Unused(S, f) == {x \in S : f[x] = "unused"}
Fresh(S, f)  == CHOOSE x \in Unused(S, f) : \A y \in Unused(S, f) : x <= y

\* A message the extension hands to the platform in this step: the thread it
\* goes to, what it is, whether that thread's mute had completed, and, for
\* the embed of agent_end, the duration it shows (line 802).
Msg(to, what) ==
    [to |-> to, what |-> what, late |-> to \in muteDone, duration |-> 0]
Embed(to, duration) == [Msg(to, "embed") EXCEPT !.duration = duration]
\* What a command tells the user through ctx.ui.notify in this step, kept
\* with the step's sends; it goes to no thread.
Notice(what) == [to |-> Null, what |-> what, late |-> FALSE, duration |-> 0]
NoTurn == [n |-> 0, owner |-> Null, cur |-> Null, followUp |-> FALSE,
           multi |-> FALSE, parts |-> <<>>]

\* ---- startBot, lines 321-503 ----------------------------------------------
\* Lines 322-335 and 486: the part of startBot that runs at the call.  The
\* result is "fail" (no token), "ok" (a client exists) or "await": a Client was
\* constructed, both listeners registered and login() issued.
\* A startBot without the guard of line 324, to test C9 against.
StartBotCallAnew(tok, cl, cls) ==
    IF ~tok THEN [r |-> "fail", client |-> cl, clients |-> cls, c |-> Null]
    ELSE IF cl # Null /\ Unused(ClientIds, cls) = {}
        THEN [r |-> "ok", client |-> cl, clients |-> cls, c |-> Null]
    ELSE LET c == Fresh(ClientIds, cls)
         IN  [r |-> "await", client |-> c,
              clients |-> [cls EXCEPT ![c] = "connecting"], c |-> c]

\* A startBot that does not ask for the token, to test C31 against.
StartBotCallTokenless(tok, cl, cls) ==
    IF cl # Null \/ Unused(ClientIds, cls) = {}
        THEN [r |-> "ok", client |-> cl, clients |-> cls, c |-> Null]
    ELSE LET c == Fresh(ClientIds, cls)
         IN  [r |-> "await", client |-> c,
              clients |-> [cls EXCEPT ![c] = "connecting"], c |-> c]

StartBotCall(tok, cl, cls) ==
    IF ~tok THEN [r |-> "fail", client |-> cl, clients |-> cls, c |-> Null]
    ELSE IF cl # Null THEN [r |-> "ok", client |-> cl, clients |-> cls, c |-> Null]
    ELSE LET c == Fresh(ClientIds, cls)
         IN  [r |-> "await", client |-> c,
              clients |-> [cls EXCEPT ![c] = "connecting"], c |-> c]

\* Lines 499-502: the catch of startBot.
\* A catch that lets the error escape, to test C10 against.
StartBotCatchRethrows == [r |-> "threw", client |-> Null]

StartBotCatch == [r |-> "fail", client |-> Null]

\* ---- getOrCreateThread, lines 616-689 ---------------------------------------
\* Lines 620-631 and 648-651: the part that runs at the call.  "null" is the
\* early return; otherwise a fetch is issued: of the bound thread ("goct_fetch")
\* or, with no binding, of the configured channel ("goct_chan").
\* A getOrCreateThread without the check of line 626, to test C6 against.
GoctBeginUnmuted(cl, cfg, thrds, muted, sk) ==
    IF cl = Null \/ ~cfg.present THEN [r |-> "null", pc |-> "-", th |-> Null]
    ELSE LET existingThreadId == IF sk # Null THEN thrds[sk] ELSE Null
         IN  IF existingThreadId # Null
                 THEN [r |-> "await", pc |-> "goct_fetch", th |-> existingThreadId]
             ELSE [r |-> "await", pc |-> "goct_chan", th |-> Null]

GoctBegin(cl, cfg, thrds, muted, sk) ==
    IF cl = Null \/ ~cfg.present THEN [r |-> "null", pc |-> "-", th |-> Null]
    ELSE LET existingThreadId == IF sk # Null THEN thrds[sk] ELSE Null
         IN  IF existingThreadId # Null /\ existingThreadId \in muted
                 THEN [r |-> "null", pc |-> "-", th |-> Null]
             ELSE IF existingThreadId # Null
                 THEN [r |-> "await", pc |-> "goct_fetch", th |-> existingThreadId]
             ELSE [r |-> "await", pc |-> "goct_chan", th |-> Null]

\* Lines 639-643: the catch around the fetch of the bound thread.
EvictThreads(thrds, sk) == [thrds EXCEPT ![sk] = Null]
EvictWatched(w, existingThreadId) == [w EXCEPT ![existingThreadId] = Null]

\* Lines 678-682: record the new binding.
BindThreads(thrds, sk, t) == [thrds EXCEPT ![sk] = t]
BindWatched(w, sk, t) == [w EXCEPT ![t] = sk]

\* What the command that called notify tells the user about its result
\* (930-935, 970-974); the other callers of getOrCreateThread tell nothing.
NotifyReturns(kind, ok) ==
    IF kind \in {"discord-test", "discord-setup"}
        THEN {Notice(IF ok THEN "notified" ELSE "notify failed")}
    ELSE {}
\* What a send that a handler awaited last has come to.
SendRet(ok, th, by) ==
    [r |-> IF ok THEN "sent" ELSE "send failed", at |-> "resume", th |-> th,
     by |-> by, cl |-> Null]
\* What the caller does when getOrCreateThread hands it thread th, up to its
\* next await: agent_end 784-813, tool_result 841-849, notify 703-712.
\* Assigns tasks', sent' and goctRet'.
AfterGoct(i, t, th) ==
    /\ goctRet' = GoctRet("thread", "resume", th, t.kind)
    /\ CASE t.kind = "agent_end" ->
              IF t.txt
                  THEN /\ sent' = {Msg(th, "mirror")}
                       /\ Park(i, [t EXCEPT !.pc = "ae_mirror", !.th = th])
              ELSE IF EmbedDue(t.duration, MinDurationMs)
                  THEN /\ sent' = {Embed(th, t.duration)}
                       /\ Park(i, [t EXCEPT !.pc = "send", !.th = th])
              ELSE /\ sent' = {}
                   /\ Done(i)
         [] t.kind = "tool_result" ->
              /\ sent' = {Msg(th, "image")}
              /\ Park(i, [t EXCEPT !.pc = "send", !.th = th])
         [] OTHER ->   \* notify, called by discord-test and discord-setup
              IF t.ex # Null
                  THEN \* 703-705
                       /\ sent' = {Msg(th, "embed")}
                       /\ Park(i, [t EXCEPT !.pc = "send", !.th = th])
              ELSE \* 712, then 930-932 or 970-971
                   /\ sent' = NotifyReturns(t.kind, TRUE)
                   /\ Done(i)

\* getOrCreateThread returns null: every caller returns (782, 839, 701).
GoctNull(i) ==
    /\ goctRet' = GoctRet("null", "resume", Null, i.kind)
    /\ sent' = NotifyReturns(i.kind, FALSE)
    /\ Done(i)

\* The call of getOrCreateThread by the handler parked as t in slot i.
GoctCall(i, t, cl, cfg) ==
    LET g == GoctBegin(cl, cfg, threads, mutedThreads, sessionFile)
    IN  /\ goctRet' = GoctRet(IF g.r = "null" THEN "null" ELSE "pending", "call",
                               Null, t.kind)
        /\ sent' = IF g.r = "null" THEN NotifyReturns(t.kind, FALSE) ELSE {}
        /\ IF g.r = "null" THEN Done(i)
           ELSE Park(i, [t EXCEPT !.pc = g.pc, !.sk = sessionFile, !.th = g.th,
                                  !.nm = IF g.pc = "goct_chan"
                                             THEN MakeThreadName ELSE "-"])

\* notify, lines 695-700.
\* A notify that passes its embed to getOrCreateThread in every case, to
\* test C36 against.
NotifyCallSeeding(i, t, cl, cfg) ==
    IF cl = Null \/ ~cfg.present
        THEN /\ goctRet' = NoRet /\ sent' = NotifyReturns(t.kind, FALSE) /\ Done(i)
    ELSE LET existingThreadId == threads[sessionFile]
         IN  GoctCall(i, [t EXCEPT !.ex = existingThreadId, !.emb = TRUE], cl, cfg)
NotifyCall(i, t, cl, cfg) ==
    IF cl = Null \/ ~cfg.present
        THEN /\ goctRet' = NoRet /\ sent' = NotifyReturns(t.kind, FALSE) /\ Done(i)
    ELSE LET existingThreadId == threads[sessionFile]
         IN  GoctCall(i, [t EXCEPT !.ex = existingThreadId,
                                   !.emb = (existingThreadId = Null)], cl, cfg)

\* Lines 647-651, after the bound thread could not be used: the fetch of the
\* configured channel is issued, unless `client` is null by now (the TypeError
\* is caught at 685).  The handler keeps existingThreadId in th.
CreateStart(i) ==
    IF client = Null THEN GoctNull(i)
    ELSE /\ goctRet' = NoRet
         /\ sent' = {}
         /\ Park(i, [i EXCEPT !.pc = "goct_chan", !.nm = MakeThreadName])

\* ---- what a caller of startBot does with its result ------------------------
\* session_start 725-728, discord-toggle 992-999, discord-test 950-976,
\* discord-setup 906-936.  r is "ok", "fail", or "threw" when startBot raised
\* instead of returning; cl is `client` after startBot; csf is
\* currentSessionFile before this point.  Assigns tasks', sbRet', goctRet',
\* sent', warned', crashed' and currentSessionFile'.
AfterStartBot(i, t, r, at, cl, csf, cfg) ==
    /\ sbRet' = SbRet(r, at, t.kind, IF at = "call" THEN cl ELSE Null)
    /\ crashed' = (crashed \/ r = "threw")
    /\ warned' = (warned \/ (t.kind = "session_start" /\ r = "fail"))
    /\ IF t.kind \in {"discord-test", "discord-setup"} /\ r = "ok"
           THEN /\ currentSessionFile' = sessionFile
                /\ NotifyCall(i, t, cl, cfg)
       ELSE /\ currentSessionFile' = csf
            /\ goctRet' = NoRet
            /\ sent' = {}
            /\ Done(i)

\* A handler calls startBot when `client` is cl.  Assigns client' and clients'
\* and what AfterStartBot assigns.
StartBotFrom(i, t, cl, csf, cfg) ==
    LET s == StartBotCall(token, cl, clients)
    IN  /\ (token /\ cl = Null) => Unused(ClientIds, clients) # {}
        /\ client' = s.client
        /\ clients' = s.clients
        /\ IF s.r = "await"
               THEN /\ Park(i, [t EXCEPT !.pc = "sb_login", !.c = s.c])
                    /\ sbRet' = SbRet("pending", "call", t.kind, cl)
                    /\ goctRet' = NoRet /\ sent' = {}
                    /\ UNCHANGED <<warned, crashed>>
                    /\ currentSessionFile' = csf
           ELSE AfterStartBot(i, t, s.r, "call", s.client, csf, cfg)

\* The Watched-Thread Index after lines 494-496.
RebuildWatched(w, thrds) ==
    [t \in ThreadIds |->
        IF \E s \in SessionKeys : thrds[s] = t
            THEN CHOOSE s \in SessionKeys : thrds[s] = t
        ELSE w[t]]

\* login() of the Client this call constructed has settled (486-490).
StartBotLogin(i) ==
    /\ i.pc = "sb_login"
    /\ LET t == i
           c == t.c
       IN  \E resolved \in BOOLEAN :
           /\ clients' = [clients EXCEPT ![c] =
                  IF @ = "connecting" THEN (IF resolved THEN "ready" ELSE "failed")
                  ELSE @]
           /\ IF resolved /\ client # Null /\ config.present
                  THEN \* 487-490: `client` is read again, not the local Client
                       /\ botUserId' = (clients'[client] = "ready")
                       /\ client' = client
                       /\ Park(i, [t EXCEPT !.pc = "sb_channel", !.via = client])
                       /\ sbRet' = NoRet /\ goctRet' = NoRet /\ sent' = {}
                       /\ UNCHANGED <<warned, crashed, currentSessionFile>>
              ELSE \* login rejected, or `client.user` with client null, or
                   \* `config.channelId` with no configuration: the catch
                   /\ botUserId' = botUserId
                   /\ client' = StartBotCatch.client
                   /\ AfterStartBot(i, t, StartBotCatch.r, "login",
                                    StartBotCatch.client, currentSessionFile, config)
    /\ turn' = NoTurn
    /\ UNCHANGED <<config, threads, mutedThreads, watchedThreads, isForum, isAgentBusy,
                   lastKnownSessionName, threadAutoNamed, fileVars, hostVars, libVars,
                   thr, chanType, createdFor, thrName, delivered, nextMsg, muteDone>>

\* The fetch of the configured channel has settled (490-502).
StartBotChannel(i) ==
    /\ i.pc = "sb_channel"
    /\ LET t == i
       IN  \E fetched \in BOOLEAN :
           /\ fetched => clients[t.via] = "ready"
           /\ IF fetched
                  THEN /\ isForum' = (chanType = "forum")
                       /\ watchedThreads' = RebuildWatched(watchedThreads, threads)
                       /\ client' = client
                       /\ AfterStartBot(i, t, "ok", "channel", client,
                                        currentSessionFile, config)
              ELSE /\ UNCHANGED <<isForum, watchedThreads>>
                   /\ client' = StartBotCatch.client
                   /\ AfterStartBot(i, t, StartBotCatch.r, "channel",
                                    StartBotCatch.client, currentSessionFile, config)
    /\ turn' = NoTurn
    /\ UNCHANGED <<config, threads, mutedThreads, botUserId, isAgentBusy,
                   lastKnownSessionName, threadAutoNamed, fileVars, hostVars, libVars,
                   platVars, delivered, nextMsg, muteDone>>

\* ---- stopBot, lines 505-511 -------------------------------------------------
\* destroy() has settled: lines 508-509, then the caller goes on:
\* session_shutdown and discord-toggle are finished, discord-setup continues
\* with 897-905.
\* Assigns config', configFile', client' and what StartBotFrom assigns.
AfterStopBot(i, t) ==
    IF t.kind = "discord-setup"
        THEN /\ config' = SetupConfig
             /\ configFile' = SetupConfig
             /\ StartBotFrom(i, t, Null, currentSessionFile, SetupConfig)
    ELSE /\ UNCHANGED <<config, configFile, clients, warned, crashed, currentSessionFile>>
         /\ client' = Null
         /\ sbRet' = NoRet /\ goctRet' = NoRet /\ sent' = {}
         /\ Done(i)

StopBotDone(i) ==
    /\ i.pc = "stop_destroy"
    /\ botUserId' = FALSE
    /\ AfterStopBot(i, i)
    /\ turn' = NoTurn
    /\ UNCHANGED <<threads, mutedThreads, watchedThreads, isForum, isAgentBusy,
                   lastKnownSessionName, threadAutoNamed, threadsFile, mutedFile,
                   hostVars, libVars, thr, chanType, createdFor, thrName, delivered, nextMsg, muteDone>>

\* ---- session_start, lines 717-730 -------------------------------------------
SessionStart(i) ==
    /\ phase = "new"
    /\ Starts(i)
    /\ phase' = "running"
    /\ lastKnownSessionName' = GetSessionName
    /\ threadAutoNamed' = (GetSessionName # Null)
    /\ IF config.present /\ config.enabled
           THEN StartBotFrom(i, [Idle EXCEPT !.kind = "session_start"], client,
                             sessionFile, config)
       ELSE /\ currentSessionFile' = sessionFile
            /\ UNCHANGED <<client, clients, tasks, warned, crashed>>
            /\ sbRet' = NoRet /\ goctRet' = NoRet /\ sent' = {}
    /\ turn' = NoTurn
    /\ UNCHANGED <<config, threads, mutedThreads, watchedThreads, botUserId, isForum,
                   isAgentBusy, fileVars, token, sessionFile, sessionName, room, libVars,
                   inbox, agentTurn, thr, chanType, createdFor, thrName, delivered, nextMsg, muteDone>>

\* ---- session_shutdown, lines 855-857 ----------------------------------------
SessionShutdown(i) ==
    /\ phase = "running"
    /\ Starts(i)
    /\ phase' = "shutdown"
    /\ IF client # Null
           THEN \* 506-507: destroy() is issued and awaited
                /\ clients' = [clients EXCEPT ![client] = "destroyed"]
                /\ Park(i, [Idle EXCEPT !.kind = "session_shutdown", !.pc = "stop_destroy"])
       ELSE UNCHANGED <<clients, tasks>>
    /\ sbRet' = NoRet /\ goctRet' = NoRet /\ sent' = {} /\ turn' = NoTurn
    /\ UNCHANGED <<extVars, fileVars, token, sessionFile, sessionName, room, libVars,
                   inbox, agentTurn, thr, chanType, createdFor, thrName, delivered, nextMsg,
                   muteDone, warned, crashed>>

\* ---- /discord-toggle, lines 980-1001 ----------------------------------------
DiscordToggle(i) ==
    /\ phase = "running"
    /\ Starts(i)
    /\ config.present /\ token          \* otherwise "Not configured", 983-986
    /\ config' = [config EXCEPT !.enabled = ~config.enabled]
    /\ configFile' = config'
    /\ IF config'.enabled
           THEN StartBotFrom(i, [Idle EXCEPT !.kind = "discord-toggle"], client,
                             currentSessionFile, config')
       ELSE /\ IF client # Null
                   THEN /\ clients' = [clients EXCEPT ![client] = "destroyed"]
                        /\ Park(i, [Idle EXCEPT !.kind = "discord-toggle",
                                                !.pc = "stop_destroy"])
               ELSE UNCHANGED <<clients, tasks>>
            /\ UNCHANGED <<client, warned, crashed, currentSessionFile>>
            /\ sbRet' = NoRet /\ goctRet' = NoRet /\ sent' = {}
    /\ turn' = NoTurn
    /\ UNCHANGED <<threads, mutedThreads, watchedThreads, botUserId, isForum,
                   isAgentBusy, lastKnownSessionName, threadAutoNamed,
                   threadsFile, mutedFile, hostVars, libVars,
                   thr, chanType, createdFor, thrName, delivered, nextMsg, muteDone>>

\* ---- /discord-test, lines 940-978 -------------------------------------------
DiscordTest(i) ==
    /\ phase = "running"
    /\ Starts(i)
    /\ LET t == [Idle EXCEPT !.kind = "discord-test"]
       IN  IF ~(config.present /\ token)
               THEN \* 943-946
                    /\ UNCHANGED <<client, clients, warned, crashed, currentSessionFile>>
                    /\ sbRet' = NoRet /\ goctRet' = NoRet
                    /\ sent' = {Notice("not configured")}
                    /\ Done(i)
           ELSE IF client = Null
               THEN StartBotFrom(i, t, client, currentSessionFile, config)
           ELSE /\ UNCHANGED <<client, clients, warned, crashed>>
                /\ sbRet' = NoRet
                /\ currentSessionFile' = sessionFile
                /\ NotifyCall(i, t, client, config)
    /\ turn' = NoTurn
    /\ UNCHANGED <<config, threads, mutedThreads, watchedThreads, botUserId, isForum,
                   isAgentBusy, lastKnownSessionName, threadAutoNamed,
                   fileVars, hostVars, libVars,
                   thr, chanType, createdFor, thrName, delivered, nextMsg, muteDone>>

\* ---- /discord-setup <channel-id>, lines 861-938 -----------------------------
DiscordSetup(i) ==
    /\ phase = "running"
    /\ Starts(i)
    /\ token                            \* otherwise the error of 885-893
    /\ LET t == [Idle EXCEPT !.kind = "discord-setup"]
       IN  IF client # Null
               THEN \* 895: stopBot issues destroy() and awaits it
                    /\ clients' = [clients EXCEPT ![client] = "destroyed"]
                    /\ Park(i, [t EXCEPT !.pc = "stop_destroy"])
                    /\ UNCHANGED <<config, configFile, client, warned, crashed,
                                   currentSessionFile>>
                    /\ sbRet' = NoRet /\ goctRet' = NoRet /\ sent' = {}
           ELSE AfterStopBot(i, t)
    /\ turn' = NoTurn
    /\ UNCHANGED <<threads, mutedThreads, watchedThreads, botUserId, isForum,
                   isAgentBusy, lastKnownSessionName, threadAutoNamed,
                   threadsFile, mutedFile, hostVars, libVars,
                   thr, chanType, createdFor, thrName, delivered, nextMsg, muteDone>>

\* ---- getOrCreateThread: the continuations --------------------------------
goctFrame == <<config, mutedThreads, client, botUserId, isForum, isAgentBusy,
               currentSessionFile, lastKnownSessionName, threadAutoNamed,
               configFile, mutedFile, hostVars, libVars, clients, chanType,
               delivered, nextMsg, muteDone, warned, crashed>>
NoObs == sbRet' = NoRet /\ turn' = NoTurn

\* The fetch of the bound thread has settled (631-645): it yields the thread,
\* yields no thread, or throws.
GoctFetched(i) ==
    /\ i.pc = "goct_fetch"
    /\ LET t == i
           existingThreadId == t.th
       IN  \E o \in {"thread", "none", "throw"} :
           /\ o = "thread" => thr[existingThreadId] \in {"open", "archived"}
           /\ o = "none" => thr[existingThreadId] = "deleted"
           /\ CASE o = "thread" /\ thr[existingThreadId] = "archived" ->
                     \* 633-634: setArchived(false) is issued and awaited
                     /\ Park(i, [t EXCEPT !.pc = "goct_unarch"])
                     /\ goctRet' = NoRet /\ sent' = {}
                     /\ UNCHANGED <<threads, watchedThreads, threadsFile>>
                [] o = "thread" /\ thr[existingThreadId] # "archived" ->
                     /\ AfterGoct(i, t, existingThreadId)
                     /\ UNCHANGED <<threads, watchedThreads, threadsFile>>
                [] o = "none" ->
                     /\ CreateStart(i)
                     /\ UNCHANGED <<threads, watchedThreads, threadsFile>>
                [] o = "throw" ->
                     /\ threads' = EvictThreads(threads, t.sk)
                     /\ watchedThreads' = EvictWatched(watchedThreads, existingThreadId)
                     /\ threadsFile' = threads'
                     /\ CreateStart(i)
    /\ NoObs
    /\ UNCHANGED <<goctFrame, thr, createdFor, thrName>>

\* setArchived(false) has settled (634-643).
GoctUnarchived(i) ==
    /\ i.pc = "goct_unarch"
    /\ LET t == i
       IN  \E ok \in BOOLEAN :
           /\ ok => thr[t.th] # "deleted"
           /\ IF ok
                  THEN /\ thr' = [thr EXCEPT ![t.th] = "open"]
                       /\ AfterGoct(i, t, t.th)
                       /\ UNCHANGED <<threads, watchedThreads, threadsFile>>
              ELSE /\ thr' = thr
                   /\ threads' = EvictThreads(threads, t.sk)
                   /\ watchedThreads' = EvictWatched(watchedThreads, t.th)
                   /\ threadsFile' = threads'
                   /\ CreateStart(i)
    /\ NoObs
    /\ UNCHANGED <<goctFrame, createdFor, thrName>>

\* The fetch of the configured channel has settled (651-676).
GoctChannel(i) ==
    /\ i.pc = "goct_chan"
    /\ \E fetched \in BOOLEAN :
           IF fetched /\ chanType \in {"forum", "text"}
               THEN \* 658 / 667: threads.create is issued and awaited
                    /\ Park(i, [i EXCEPT !.pc = "goct_create"])
                    /\ goctRet' = NoRet /\ sent' = {}
           ELSE GoctNull(i)
    /\ NoObs
    /\ UNCHANGED <<goctFrame, threads, watchedThreads, threadsFile, thr, createdFor, thrName>>

\* threads.create has settled (658-688).
GoctCreated(i) ==
    /\ i.pc = "goct_create"
    /\ LET t == i
       IN  \E created \in BOOLEAN :
           /\ created => Unused(ThreadIds, thr) # {}
           /\ IF created
                  THEN LET new == Fresh(ThreadIds, thr)
                       IN  /\ thr' = [thr EXCEPT ![new] = "open"]
                           /\ createdFor' = [createdFor EXCEPT ![new] = t.sk]
                           /\ thrName' = [thrName EXCEPT ![new] = t.nm]
                           /\ IF chanType = "text" /\ t.emb
                                  THEN \* 671-673: the embed is sent and awaited
                                       /\ sent' = {Msg(new, "seed")}
                                       /\ goctRet' = NoRet
                                       /\ Park(i, [t EXCEPT !.pc = "goct_seed", !.th = new])
                                       /\ UNCHANGED <<threads, watchedThreads, threadsFile>>
                              ELSE \* 658-664: a forum thread starts with the
                                   \* embed, if one was passed
                                   /\ threads' = BindThreads(threads, t.sk, new)
                                   /\ watchedThreads' = BindWatched(watchedThreads, t.sk, new)
                                   /\ threadsFile' = threads'
                                   /\ AfterGoct(i, [t EXCEPT !.got = IF t.emb THEN @ + 1 ELSE @],
                                                new)
              ELSE /\ GoctNull(i)
                   /\ UNCHANGED <<threads, watchedThreads, threadsFile, thr, createdFor, thrName>>
    /\ NoObs
    /\ UNCHANGED goctFrame

\* The send of the first embed into a new text-channel thread has settled
\* (672-688).
GoctSeeded(i) ==
    /\ i.pc = "goct_seed"
    /\ LET t == i
       IN  \E ok \in BOOLEAN :
           IF ok
               THEN /\ threads' = BindThreads(threads, t.sk, t.th)
                    /\ watchedThreads' = BindWatched(watchedThreads, t.sk, t.th)
                    /\ threadsFile' = threads'
                    /\ AfterGoct(i, [t EXCEPT !.got = @ + 1], t.th)
           ELSE /\ GoctNull(i)
                /\ UNCHANGED <<threads, watchedThreads, threadsFile>>
    /\ NoObs
    /\ UNCHANGED <<goctFrame, thr, createdFor, thrName>>

\* ---- session_switch, lines 732-736 ------------------------------------------
SessionSwitch ==
    /\ phase = "running"
    /\ \E s \in SessionKeys \ {sessionFile} :
           /\ sessionFile' = s
           /\ currentSessionFile' = s
           /\ lastKnownSessionName' = sessionName[s]
           /\ threadAutoNamed' = (sessionName[s] # Null)
    /\ sbRet' = NoRet /\ goctRet' = NoRet /\ sent' = {} /\ turn' = NoTurn
    /\ UNCHANGED <<config, threads, mutedThreads, watchedThreads, client, botUserId,
                   isForum, isAgentBusy, fileVars, token, sessionName, phase, room, libVars,
                   inbox, agentTurn, platVars, tasks, delivered, nextMsg, muteDone, warned, crashed>>

\* ---- agent_start, lines 738-741 -----------------------------------------------
\* agentStartTime is not kept: the duration of the turn is drawn at agent_end.
\* The host starts a turn of the agent (agentTurn) and emits the event.
AgentStart ==
    /\ phase = "running"
    /\ ~agentTurn
    /\ agentTurn' = TRUE
    /\ isAgentBusy' = TRUE
    /\ sbRet' = NoRet /\ goctRet' = NoRet /\ sent' = {} /\ turn' = NoTurn
    /\ UNCHANGED <<config, threads, mutedThreads, watchedThreads, client, botUserId,
                   isForum, currentSessionFile, lastKnownSessionName, threadAutoNamed,
                   fileVars, token, sessionFile, sessionName, phase, room, libVars, inbox,
                   platVars, tasks, delivered, nextMsg, muteDone, warned, crashed>>

\* ---- renameCurrentThread, lines 531-546 -------------------------------------
\* The thread a call of renameCurrentThread goes for, or Null when it returns
\* false at once (531-535).
RenameTarget ==
    IF client = Null \/ currentSessionFile = Null THEN Null
    ELSE threads[currentSessionFile]
\* Lines 538-541: setName on the fetched thread, when both went through.
SetName(names, th, name, ok) == IF ok THEN [names EXCEPT ![th] = name] ELSE names

\* ---- agent_end, lines 743-814 -------------------------------------------------
Durations == {MinDurationMs - 1, MinDurationMs, MinDurationMs + 1}

\* Lines 767-782: the guard, the duration and the call of getOrCreateThread.
\* Assigns tasks', goctRet' and sent'.
AgentEndNotify(i, t) ==
    IF ~(config.present /\ config.enabled) \/ client = Null
        THEN /\ goctRet' = NoRet /\ sent' = {} /\ Done(i)
    ELSE \E duration \in Durations :
             GoctCall(i, [t EXCEPT !.duration = duration], client, config)

\* Line 749: the session has a name and it is not the one seen last.
\* A test that forgets the name seen last, to test C24 against.
NameSet(currentName, lastKnown) == currentName # Null

NameChanged(currentName, lastKnown) ==
    currentName # Null /\ currentName # lastKnown

\* Lines 744-765.  hasText: the turn produced assistant text; hasModel:
\* ctx.model is set, so generateThreadName goes on to its awaits.
AgentEnd(i) ==
    /\ phase = "running"
    /\ Starts(i)
    /\ agentTurn
    /\ agentTurn' = FALSE
    /\ isAgentBusy' = FALSE
    /\ \E hasText, hasModel \in BOOLEAN :
       LET t == [Idle EXCEPT !.kind = "agent_end", !.txt = hasText]
           currentName == GetSessionName
       IN  IF /\ config.present /\ config.enabled /\ client # Null
              /\ currentSessionFile # Null
              /\ threads[currentSessionFile] # Null
               THEN IF NameChanged(currentName, lastKnownSessionName)
                        THEN \* 751-754: renameCurrentThread fetches the thread
                             /\ lastKnownSessionName' = currentName
                             /\ threadAutoNamed' = TRUE
                             /\ Park(i, [t EXCEPT !.pc = "ae_rename",
                                                  !.th = RenameTarget,
                                                  !.nm = MakeThreadName])
                             /\ goctRet' = NoRet /\ sent' = {}
                    ELSE IF ~threadAutoNamed /\ currentName = Null
                        THEN /\ lastKnownSessionName' = lastKnownSessionName
                             /\ threadAutoNamed' = TRUE
                             /\ IF hasModel
                                    THEN \* 557: generateThreadName awaits the key
                                         /\ Park(i, [t EXCEPT !.pc = "ae_generate"])
                                         /\ goctRet' = NoRet /\ sent' = {}
                                ELSE AgentEndNotify(i, t)
                    ELSE /\ UNCHANGED <<lastKnownSessionName, threadAutoNamed>>
                         /\ AgentEndNotify(i, t)
           ELSE /\ UNCHANGED <<lastKnownSessionName, threadAutoNamed>>
                /\ AgentEndNotify(i, t)
    /\ sbRet' = NoRet /\ turn' = NoTurn
    /\ UNCHANGED <<config, threads, mutedThreads, watchedThreads, client, botUserId,
                   isForum, currentSessionFile, fileVars, token, sessionFile,
                   sessionName, phase, room, libVars, inbox, platVars,
                   delivered, nextMsg, muteDone, warned, crashed>>

\* generateThreadName has settled with a name or with null: lines 758-763.
\* With a name, renameCurrentThread is called for what is then the current
\* session's thread.
AgentEndGenerated(i) ==
    /\ i.pc = "ae_generate"
    /\ \E generated \in BOOLEAN :
           IF generated /\ RenameTarget # Null
               THEN /\ Park(i, [i EXCEPT !.pc = "ae_rename", !.th = RenameTarget,
                                         !.nm = "generated"])
                    /\ goctRet' = NoRet /\ sent' = {}
           ELSE AgentEndNotify(i, i)
    /\ sbRet' = NoRet /\ turn' = NoTurn
    /\ UNCHANGED <<extVars, fileVars, hostVars, libVars, platVars,
                   delivered, nextMsg, muteDone, warned, crashed>>

\* renameCurrentThread has settled (the fetch of the thread and setName, or a
\* failure of either): lines 754 / 762, then 767-782.
AgentEndRenamed(i) ==
    /\ i.pc = "ae_rename"
    /\ \E ok \in BOOLEAN :
           /\ ok => Posted(i.th)
           /\ thrName' = SetName(thrName, i.th, i.nm, ok)
    /\ AgentEndNotify(i, i)
    /\ sbRet' = NoRet /\ turn' = NoTurn
    /\ UNCHANGED <<extVars, fileVars, hostVars, libVars, clients, thr, chanType, createdFor,
                   delivered, nextMsg, muteDone, warned, crashed>>

\* The plain-text mirror has settled, sent or failed: lines 794-813.
AgentEndMirror(i) ==
    /\ i.pc = "ae_mirror"
    /\ \E ok \in BOOLEAN : goctRet' = SendRet(ok, i.th, i.kind)
    /\ IF EmbedDue(i.duration, MinDurationMs)
           THEN /\ sent' = {Embed(i.th, i.duration)}
                /\ Park(i, [i EXCEPT !.pc = "send"])
       ELSE /\ sent' = {}
            /\ Done(i)
    /\ sbRet' = NoRet /\ turn' = NoTurn
    /\ UNCHANGED <<extVars, fileVars, hostVars, libVars, platVars,
                   delivered, nextMsg, muteDone, warned, crashed>>

\* The last send of a handler has settled, sent or failed: the embed of
\* agent_end (809-813), the image of tool_result (846-852), the embed of
\* notify (703-712).  A failure is logged; notify answers its command.
\* A handler that sends once more after a failure, to test C32 against.
SendSettledRetry(i) ==
    /\ i.pc = "send"
    /\ \E ok \in BOOLEAN :
           /\ goctRet' = SendRet(ok, i.th, i.kind)
           /\ IF ok THEN /\ sent' = NotifyReturns(i.kind, ok)
                         /\ Done(i)
              ELSE /\ sent' = {Msg(i.th, "embed")}
                   /\ Park(i, i)
    /\ sbRet' = NoRet /\ turn' = NoTurn
    /\ UNCHANGED <<extVars, fileVars, hostVars, libVars, platVars,
                   delivered, nextMsg, muteDone, warned, crashed>>
SendSettled(i) ==
    /\ i.pc = "send"
    /\ \E ok \in BOOLEAN :
           /\ goctRet' = SendRet(ok, i.th, i.kind)
           /\ sent' = NotifyReturns(i.kind, ok)
    /\ Done(i)
    /\ sbRet' = NoRet /\ turn' = NoTurn
    /\ UNCHANGED <<extVars, fileVars, hostVars, libVars, platVars,
                   delivered, nextMsg, muteDone, warned, crashed>>

\* ---- tool_result for a read or write of an existing image file, 817-853 -----
ToolResult(i) ==
    /\ phase = "running"
    /\ Starts(i)
    /\ IF config.present /\ config.enabled /\ client # Null
           THEN GoctCall(i, [Idle EXCEPT !.kind = "tool_result"], client, config)
       ELSE \* 818
            /\ goctRet' = NoRet /\ sent' = {} /\ Done(i)
    /\ sbRet' = NoRet /\ turn' = NoTurn
    /\ UNCHANGED <<extVars, fileVars, hostVars, libVars, platVars,
                   delivered, nextMsg, muteDone, warned, crashed>>

\* ---- messageCreate, lines 338-433 -------------------------------------------
\* A gateway event reaches the listeners of a logged-in Client.
GatewayLive == \E c \in ClientIds : clients[c] = "ready"

inboundFrame == <<config, threads, mutedThreads, watchedThreads, client, botUserId,
                  isForum, isAgentBusy, currentSessionFile, lastKnownSessionName,
                  threadAutoNamed, fileVars, hostVars, libVars, platVars,
                  muteDone, warned, crashed>>

\* The content of a turn: a text part (the message body, the empty string
\* of a message without one, the transcription that replaced it at line 370,
\* or the caption of line 406) or the k-th image attachment.
TextPart(src) == [type |-> "text", src |-> src, k |-> 0]
ImagePart(k) == [type |-> "image", src |-> "-", k |-> k]
\* `text` when the voice part is over (361, 370).
\* A handler that forgets line 370, to test C13 against.
TextOfBody(t) == TextPart("body")

TextOf(t) ==
    TextPart(IF ~t.txt THEN "empty" ELSE IF t.voice THEN "transcript" ELSE "body")

\* Lines 410-414 and 425-429: how the turn is handed over.
\* A delivery that ignores isAgentBusy, to test C17 against.
DeliverAsNow(busy) == "turn"

DeliverAs(busy) == IF busy THEN "followUp" ELSE "turn"

\* pi.sendUserMessage, lines 409-417 and 424-432.  Assigns turn' and delivered'.
Deliver(t, parts, multi) ==
    /\ turn' = [n |-> t.n, owner |-> t.sk, cur |-> currentSessionFile,
                followUp |-> (DeliverAs(isAgentBusy) = "followUp"),
                multi |-> multi, parts |-> parts]
    /\ delivered' = Append(delivered, t.n)

NoDeliver == turn' = NoTurn /\ delivered' = delivered

\* Lines 421-432, the plain-text path.
PlainText(i, t) ==
    /\ IF t.txt THEN Deliver(t, <<TextOf(t)>>, FALSE) ELSE NoDeliver
    /\ sent' = {}
    /\ Done(i)

\* Lines 386-389: contentParts before the loop.
\* A loop that starts without the text, to test C15 against.
FirstPartsBare(t) == <<>>

FirstParts(t) == IF t.txt THEN <<TextOf(t)>> ELSE <<>>

\* Lines 393-399: contentParts after the download of attachment k.
PushImage(contentParts, k, imgData) ==
    IF imgData THEN Append(contentParts, ImagePart(k)) ELSE contentParts

\* Lines 402-407: what is sent after the loop; <<>> when nothing is.
\* A handler without the caption of lines 405-407, to test C16 against.
FinalPartsUncaptioned(t) == t.contentParts

FinalParts(t) ==
    IF Len(t.contentParts) = 0 THEN <<>>
    ELSE IF ~t.txt THEN <<TextPart("caption")>> \o t.contentParts
    ELSE t.contentParts

\* Lines 382-432: everything after the voice part.  With image attachments the
\* reaction is added and the first download awaited.
AfterVoice(i, t) ==
    IF t.imgs > 0
        THEN /\ sent' = {Msg(t.th, "react")}
             /\ NoDeliver
             /\ Park(i, [t EXCEPT !.pc = "mc_image", !.k = 0,
                                  !.contentParts = FirstParts(t)])
    ELSE PlainText(i, t)

\* A message by a user who is not a bot, posted in thread th: lines 339-367.
MessageCreate(i) ==
    /\ phase = "running"
    /\ GatewayLive
    /\ Starts(i)
    /\ nextMsg < inbox
    /\ nextMsg' = nextMsg + 1
    /\ \E th \in ThreadIds, voice, hasText \in BOOLEAN, imgs \in 0..MaxImgs :
       /\ Posted(th)
       /\ LET sessionKey == watchedThreads[th]
              t == [Idle EXCEPT !.kind = "messageCreate", !.n = nextMsg + 1,
                                !.sk = sessionKey, !.th = th, !.txt = hasText,
                                !.voice = voice, !.imgs = imgs]
          IN  IF sessionKey = Null \/ sessionKey # currentSessionFile
                  THEN sent' = {} /\ NoDeliver /\ Done(i)          \* 344, 348
              ELSE IF voice
                  THEN \* 365-367: the reaction, then the transcription
                       /\ sent' = {Msg(th, "react")}
                       /\ NoDeliver
                       /\ Park(i, [t EXCEPT !.pc = "mc_voice"])
              ELSE AfterVoice(i, t)
    /\ sbRet' = NoRet /\ goctRet' = NoRet
    /\ UNCHANGED inboundFrame

\* transcribeVoiceMessage, lines 211-251: the steps that can fail, in order;
\* "none" when none does.  The result is whether there is a transcription.
TranscribeSteps == <<"download", "ffmpeg", "wav", "model", "inference", "empty">>
TranscribeOutcomes == {TranscribeSteps[j] : j \in DOMAIN TranscribeSteps} \cup {"none"}
\* A transcription that hands on an empty transcript, to test C14 against.
TranscribeVoiceMessageLax(failed) == failed \in {"none", "empty"}

TranscribeVoiceMessage(failed) == failed = "none"

\* transcribeVoiceMessage has returned text or null: lines 369-380.
Transcribed(i) ==
    /\ i.pc = "mc_voice"
    /\ \E failed \in TranscribeOutcomes :
       LET transcription == TranscribeVoiceMessage(failed)
       IN  IF transcription
               THEN /\ sent' = {Msg(i.th, "echo")}
                    /\ Park(i, [i EXCEPT !.pc = "mc_echo", !.txt = TRUE,
                                         !.failed = failed])
           ELSE /\ sent' = {Msg(i.th, "error")}
                /\ Done(i)
    /\ NoDeliver
    /\ sbRet' = NoRet /\ goctRet' = NoRet
    /\ UNCHANGED <<inboundFrame, nextMsg>>

\* The echo reply has settled, sent or failed: lines 382-432.
Echoed(i) ==
    /\ i.pc = "mc_echo"
    /\ AfterVoice(i, i)
    /\ sbRet' = NoRet /\ goctRet' = NoRet
    /\ UNCHANGED <<inboundFrame, nextMsg>>

\* One image download has settled: lines 391-419.
ImageDownloaded(i) ==
    /\ i.pc = "mc_image"
    /\ \E ok \in BOOLEAN :
       LET t == [i EXCEPT !.k = @ + 1,
                          !.contentParts = PushImage(@, i.k + 1, ok)]
       IN  IF t.k < t.imgs
               THEN NoDeliver /\ Park(i, t)
           ELSE /\ IF FinalParts(t) = <<>> THEN NoDeliver
                   ELSE Deliver(t, FinalParts(t), TRUE)
                /\ Done(i)
    /\ sent' = {}
    /\ sbRet' = NoRet /\ goctRet' = NoRet
    /\ UNCHANGED <<inboundFrame, nextMsg>>

\* ---- messageReactionAdd, lines 436-484 --------------------------------------
reactionFrame == <<config, client, botUserId, isForum, isAgentBusy,
                   currentSessionFile, lastKnownSessionName, threadAutoNamed,
                   configFile, hostVars, libVars, clients, chanType, createdFor, thrName,
                   delivered, nextMsg, warned, crashed>>
NoRets == sbRet' = NoRet /\ goctRet' = NoRet /\ turn' = NoTurn

\* Lines 470-471 of the mute-and-delete branch: the binding of the thread's
\* session is removed, and the thread's entry in the index.
\* A delete branch that forgets line 471, to test C3 against.
UnbindThreadsKept(thrds, sessionKey) == thrds

UnbindThreads(thrds, sessionKey) == [thrds EXCEPT ![sessionKey] = Null]
UnbindWatched(w, threadId) == [w EXCEPT ![threadId] = Null]

\* Lines 442-483, up to the first await.  Assigns threads', watchedThreads',
\* mutedThreads', their files, sent' and tasks'.
\* A handler without the test of line 442, to test C34 against.
ReactionBodyOfBots(i, t) ==
    LET threadId == t.th
        sessionKey == IF threadId = Null THEN Null ELSE watchedThreads[threadId]
    IN  IF sessionKey = Null \/ t.emoji = "other"
            THEN /\ UNCHANGED <<threads, watchedThreads, mutedThreads,
                                threadsFile, mutedFile>>
                 /\ sent' = {}
                 /\ Done(i)
        ELSE IF t.emoji = "mute"
            THEN /\ mutedThreads' = mutedThreads \cup {threadId}
                 /\ mutedFile' = SaveMuted(mutedThreads')
                 /\ UNCHANGED <<threads, watchedThreads, threadsFile>>
                 /\ sent' = {Msg(threadId, "muted")}
                 /\ Park(i, [t EXCEPT !.pc = "ra_muted"])
        ELSE /\ mutedThreads' = mutedThreads \cup {threadId}
             /\ mutedFile' = SaveMuted(mutedThreads')
             /\ threads' = UnbindThreads(threads, sessionKey)
             /\ watchedThreads' = UnbindWatched(watchedThreads, threadId)
             /\ threadsFile' = threads'
             /\ sent' = {Msg(threadId, "deleting")}
             /\ Park(i, [t EXCEPT !.pc = "ra_deleting"])
ReactionBody(i, t) ==
    LET threadId == t.th
        \* 443-447: a channel that is not a thread has no entry in the index
        sessionKey == IF threadId = Null THEN Null ELSE watchedThreads[threadId]
    IN  IF t.bot \/ sessionKey = Null \/ t.emoji = "other"
            THEN /\ UNCHANGED <<threads, watchedThreads, mutedThreads,
                                threadsFile, mutedFile>>
                 /\ sent' = {}
                 /\ Done(i)
        ELSE IF t.emoji = "mute"
            THEN /\ mutedThreads' = mutedThreads \cup {threadId}
                 /\ mutedFile' = SaveMuted(mutedThreads')
                 /\ UNCHANGED <<threads, watchedThreads, threadsFile>>
                 /\ sent' = {Msg(threadId, "muted")}
                 /\ Park(i, [t EXCEPT !.pc = "ra_muted"])
        ELSE /\ mutedThreads' = mutedThreads \cup {threadId}
             /\ mutedFile' = SaveMuted(mutedThreads')
             /\ threads' = UnbindThreads(threads, sessionKey)
             /\ watchedThreads' = UnbindWatched(watchedThreads, threadId)
             /\ threadsFile' = threads'
             /\ sent' = {Msg(threadId, "deleting")}
             /\ Park(i, [t EXCEPT !.pc = "ra_deleting"])

\* A reaction by a user or a bot on a message in thread th, or in a channel
\* that is not a thread (th is Null).
ReactionAdd(i) ==
    /\ phase = "running"
    /\ GatewayLive
    /\ Starts(i)
    /\ \E th \in ThreadIds \cup {Null}, emoji \in {"mute", "delete", "other"},
          partial, bot \in BOOLEAN :
       /\ th # Null => Posted(th)
       /\ LET t == [Idle EXCEPT !.kind = "messageReactionAdd", !.th = th,
                                !.emoji = emoji, !.bot = bot]
          IN  IF partial
                  THEN \* 438-440: reaction.fetch() is awaited
                       /\ Park(i, [t EXCEPT !.pc = "ra_partial"])
                       /\ sent' = {}
                       /\ UNCHANGED <<threads, watchedThreads, mutedThreads,
                                      threadsFile, mutedFile>>
              ELSE ReactionBody(i, t)
    /\ NoRets
    /\ UNCHANGED <<reactionFrame, thr, muteDone>>

\* reaction.fetch() has settled: line 439, then 442-483.
ReactionFetched(i) ==
    /\ i.pc = "ra_partial"
    /\ \E ok \in BOOLEAN :
           IF ok THEN ReactionBody(i, i)
           ELSE /\ UNCHANGED <<threads, watchedThreads, mutedThreads,
                               threadsFile, mutedFile>>
                /\ sent' = {}
                /\ Done(i)
    /\ NoRets
    /\ UNCHANGED <<reactionFrame, thr, muteDone>>

\* The mute confirmation has settled: lines 457-460.  Once it is posted the
\* triggering message is acknowledged and the mute is complete.
MuteConfirmed(i) ==
    /\ i.pc = "ra_muted"
    /\ \E posted \in BOOLEAN :
           /\ posted => Posted(i.th)
           /\ IF posted
                  THEN /\ sent' = {[Msg(i.th, "ack") EXCEPT !.late = FALSE]}
                       /\ muteDone' = IF i.th \in mutedThreads
                                          THEN muteDone \cup {i.th} ELSE muteDone
              ELSE sent' = {} /\ muteDone' = muteDone
    /\ Done(i)
    /\ NoRets
    /\ UNCHANGED <<reactionFrame, thr, threads, watchedThreads, mutedThreads,
                   threadsFile, mutedFile>>

\* The countdown confirmation has settled: lines 476-477, the grace period
\* starts.
DeleteConfirmed(i) ==
    /\ i.pc = "ra_deleting"
    /\ \E posted \in BOOLEAN :
           /\ posted => Posted(i.th)
           /\ IF posted THEN Park(i, [i EXCEPT !.pc = "ra_grace"]) ELSE Done(i)
    /\ sent' = {}
    /\ NoRets
    /\ UNCHANGED <<reactionFrame, thr, muteDone, threads, watchedThreads,
                   mutedThreads, threadsFile, mutedFile>>

\* The grace period is over: line 478, the thread is deleted (or the delete
\* fails and is logged).
GraceOver(i) ==
    /\ i.pc = "ra_grace"
    /\ \E deleted \in BOOLEAN :
           thr' = IF deleted /\ Posted(i.th) THEN [thr EXCEPT ![i.th] = "deleted"]
                  ELSE thr
    /\ sent' = {}
    /\ Done(i)
    /\ NoRets
    /\ UNCHANGED <<reactionFrame, muteDone, threads, watchedThreads,
                   mutedThreads, threadsFile, mutedFile>>

\* ---- /discord-unmute, lines 1083-1112 -----------------------------------------
\* Line 1097: mutedThreads.delete(threadId).
\* A command that leaves the set as it is, to test C21 against.
MutedDeleteKept(muted, threadId) == muted

MutedDelete(muted, threadId) == muted \ {threadId}

DiscordUnmute(i) ==
    /\ phase = "running"
    /\ Starts(i)
    /\ IF currentSessionFile = Null \/ threads[currentSessionFile] = Null
           THEN \* 1086-1089
                /\ sent' = {Notice("no thread")}
                /\ Done(i)
                /\ UNCHANGED <<mutedThreads, mutedFile, muteDone>>
       ELSE LET threadId == threads[currentSessionFile]
            IN  IF threadId \notin mutedThreads
                    THEN \* 1092-1095
                         /\ sent' = {Notice("not muted")}
                         /\ Done(i)
                         /\ UNCHANGED <<mutedThreads, mutedFile, muteDone>>
                ELSE /\ mutedThreads' = MutedDelete(mutedThreads, threadId)
                     /\ mutedFile' = SaveMuted(mutedThreads')
                     /\ muteDone' = muteDone \ {threadId}
                     /\ sent' = {}
                     /\ IF client # Null
                            THEN Park(i, [Idle EXCEPT !.kind = "discord-unmute",
                                                      !.pc = "um_fetch",
                                                      !.th = threadId])
                        ELSE Done(i)
    /\ NoRets
    /\ UNCHANGED <<reactionFrame, thr, threads, watchedThreads, threadsFile>>

\* The fetch of the thread has settled: lines 1103-1107.
UnmuteFetched(i) ==
    /\ i.pc = "um_fetch"
    /\ \E fetched \in BOOLEAN :
           /\ fetched => Posted(i.th)
           /\ sent' = IF fetched THEN {Msg(i.th, "unmuted")} ELSE {}
    /\ Done(i)
    /\ NoRets
    /\ UNCHANGED <<reactionFrame, thr, muteDone, threads, watchedThreads,
                   mutedThreads, threadsFile, mutedFile>>

\* ---- /discord-rename [name], lines 1037-1081 ---------------------------------
\* named: the argument is not empty after trim(); hasModel: as at agent_end.
DiscordRename(i) ==
    /\ phase = "running"
    /\ Starts(i)
    /\ \E named, hasModel \in BOOLEAN :
       LET t == [Idle EXCEPT !.kind = "discord-rename"]
       IN  IF client = Null
               THEN \* 1040-1043
                    /\ sent' = {Notice("not connected")}
                    /\ Done(i)
           ELSE IF currentSessionFile = Null \/ threads[currentSessionFile] = Null
               THEN \* 1045-1048
                    /\ sent' = {Notice("no thread to rename")}
                    /\ Done(i)
           ELSE IF named
               THEN \* 1053-1056: renameCurrentThread fetches the thread
                    /\ sent' = {}
                    /\ Park(i, [t EXCEPT !.pc = "rn_rename", !.th = RenameTarget,
                                         !.nm = "manual"])
           ELSE IF hasModel
               THEN \* 1064-1066: generateThreadName awaits the key
                    /\ sent' = {Notice("generating")}
                    /\ Park(i, [t EXCEPT !.pc = "rn_generate"])
           ELSE \* 1066, 1076-1078: generateThreadName returns null at line 553
                /\ sent' = {Notice("generating"), Notice("nothing generated")}
                /\ Done(i)
    /\ NoRets
    /\ UNCHANGED <<extVars, fileVars, hostVars, libVars, platVars,
                   delivered, nextMsg, muteDone, warned, crashed>>

\* generateThreadName has settled: lines 1066-1078.
RenameGenerated(i) ==
    /\ i.pc = "rn_generate"
    /\ \E generated \in BOOLEAN :
           IF ~generated
               THEN /\ sent' = {Notice("nothing generated")}
                    /\ Done(i)
           ELSE IF RenameTarget = Null
               THEN \* renameCurrentThread returns false at 532 or 535
                    /\ sent' = {Notice("rename failed")}
                    /\ Done(i)
           ELSE /\ sent' = {}
                /\ Park(i, [i EXCEPT !.pc = "rn_rename", !.th = RenameTarget,
                                     !.nm = "generated"])
    /\ NoRets
    /\ UNCHANGED <<extVars, fileVars, hostVars, libVars, platVars,
                   delivered, nextMsg, muteDone, warned, crashed>>

\* Lines 1057-1062 and 1070-1075: what the command does with the answer of
\* renameCurrentThread.
AfterRename(flag, ok) == IF ok THEN TRUE ELSE flag

\* renameCurrentThread has settled for the command.
Renamed(i) ==
    /\ i.pc = "rn_rename"
    /\ \E ok \in BOOLEAN :
           /\ ok => Posted(i.th)
           /\ thrName' = SetName(thrName, i.th, i.nm, ok)
           /\ threadAutoNamed' = AfterRename(threadAutoNamed, ok)
           /\ sent' = {Notice(IF ok THEN "renamed" ELSE "rename failed")}
    /\ Done(i)
    /\ NoRets
    /\ UNCHANGED <<config, threads, mutedThreads, watchedThreads, client, botUserId,
                   isForum, isAgentBusy, currentSessionFile, lastKnownSessionName,
                   fileVars, hostVars, libVars, clients, thr, chanType, createdFor,
                   delivered, nextMsg, muteDone, warned, crashed>>

\* ---- the host on its own ----------------------------------------------------
\* pi.setSessionName(): the agent or the user names the current session.
SessionNamed ==
    /\ phase = "running"
    /\ \E n \in Names \ {sessionName[sessionFile]} :
           sessionName' = [sessionName EXCEPT ![sessionFile] = n]
    /\ NoRets /\ sent' = {}
    /\ UNCHANGED <<extVars, fileVars, token, sessionFile, phase, room, libVars, inbox,
                   agentTurn, platVars, tasks, delivered, nextMsg, muteDone,
                   warned, crashed>>

\* ---- the platform on its own ------------------------------------------------
\* A thread is archived (auto-archive) or deleted by a moderator.
ThreadArchived ==
    /\ \E th \in ThreadIds :
           thr[th] = "open" /\ thr' = [thr EXCEPT ![th] = "archived"]
    /\ sbRet' = NoRet /\ goctRet' = NoRet /\ sent' = {} /\ turn' = NoTurn
    /\ UNCHANGED <<extVars, fileVars, hostVars, libVars, clients, chanType, createdFor, thrName, tasks,
                   delivered, nextMsg, muteDone, warned, crashed>>

ThreadDeleted ==
    /\ \E th \in ThreadIds :
           Posted(th) /\ thr' = [thr EXCEPT ![th] = "deleted"]
    /\ sbRet' = NoRet /\ goctRet' = NoRet /\ sent' = {} /\ turn' = NoTurn
    /\ UNCHANGED <<extVars, fileVars, hostVars, libVars, clients, chanType, createdFor, thrName, tasks,
                   delivered, nextMsg, muteDone, warned, crashed>>

\* ---- initial state: the constructor, lines 300-313 ---------------------------
\* loadConfig() finds no file, or the file an earlier /discord-setup or
\* /discord-toggle wrote; the binding map and the Muted Set start empty.
InitCommon ==
    /\ threads = EmptyThreads /\ threadsFile = EmptyThreads
    /\ mutedThreads = {} /\ mutedFile = {}
    /\ watchedThreads = EmptyWatched
    /\ isAgentBusy = FALSE /\ agentTurn = FALSE
    /\ lastKnownSessionName = Null /\ threadAutoNamed = FALSE
    /\ sessionFile = FirstSession
    /\ sessionName = [s \in SessionKeys |-> Null]
    /\ thr = [t \in ThreadIds |-> "unused"]
    /\ createdFor = [t \in ThreadIds |-> Null]
    /\ thrName = [t \in ThreadIds |-> "-"]
    /\ transcriber = Null /\ transcriberLoading = "-"
    /\ tmpFiles = {} /\ loads = 0
    /\ callRet = NoCall
    /\ bootThreads = EmptyThreads
    /\ tasks = EmptyBag
    /\ sbRet = NoRet /\ goctRet = NoRet /\ sent = {} /\ turn = NoTurn
    /\ delivered = <<>> /\ nextMsg = 0 /\ muteDone = {}
    /\ warned = FALSE /\ crashed = FALSE

\* ---- the gateway connection: session_start, session_shutdown and the three
\* commands that start or stop the bot ---------------------------------------
InitGateway(inFlight) ==
    /\ InitCommon
    /\ callArgs = NoCall
    /\ inbox = MaxMsgs
    /\ config \in {NoConfig, SetupConfig, [SetupConfig EXCEPT !.enabled = FALSE]}
    /\ configFile = config
    /\ token \in BOOLEAN
    /\ chanType \in {"forum", "text", "other"}
    /\ client = Null /\ botUserId = FALSE /\ isForum = FALSE
    /\ clients = [c \in ClientIds |-> "unused"]
    /\ currentSessionFile = Null
    /\ phase = "new"
    /\ room = inFlight

NextBot ==
    \/ SessionStart(Idle)
    \/ SessionShutdown(Idle)
    \/ DiscordToggle(Idle)
    \/ DiscordTest(Idle)
    \/ DiscordSetup(Idle)
    \/ \E i \in Running : StartBotLogin(i)
    \/ \E i \in Running : StartBotChannel(i)
    \/ \E i \in Running : StopBotDone(i)
    \/ \E i \in Running : GoctFetched(i)
    \/ \E i \in Running : GoctChannel(i)
    \/ \E i \in Running : GoctCreated(i)
    \/ \E i \in Running : GoctSeeded(i)
    \/ \E i \in Running : SendSettled(i)

InitBot == InitGateway(MaxTasks)
SpecBot == InitBot /\ [][NextBot]_vars

\* ---- the same, one handler fewer in flight: what one startBot call does ----
NextStart ==
    \/ SessionStart(Idle)
    \/ SessionShutdown(Idle)
    \/ DiscordToggle(Idle)
    \/ DiscordTest(Idle)
    \/ DiscordSetup(Idle)
    \/ \E i \in Running : StartBotLogin(i)
    \/ \E i \in Running : StartBotChannel(i)
    \/ \E i \in Running : StopBotDone(i)
    \/ \E i \in Running : GoctFetched(i)
    \/ \E i \in Running : GoctChannel(i)
    \/ \E i \in Running : GoctCreated(i)
    \/ \E i \in Running : GoctSeeded(i)
    \/ \E i \in Running : SendSettled(i)

InitStart == InitGateway(MaxTasks - 1)
SpecStart == InitStart /\ [][NextStart]_vars

\* ---- the bridge while the bot is connected ---------------------------------
\* The state session_start leaves behind on a first run with the bot enabled:
\* login and the channel fetch succeeded, no session has a thread yet.
FirstClient == CHOOSE c \in ClientIds : \A d \in ClientIds : c <= d

InitConnected(inFlight, messages, channelTypes, cfg) ==
    /\ InitCommon
    /\ callArgs = NoCall
    /\ room = inFlight
    /\ inbox = messages
    /\ config = cfg /\ configFile = cfg
    /\ token = TRUE
    /\ chanType \in channelTypes
    /\ client = FirstClient /\ botUserId = TRUE /\ isForum = (chanType = "forum")
    /\ clients = [c \in ClientIds |-> IF c = FirstClient THEN "ready" ELSE "unused"]
    /\ currentSessionFile = FirstSession
    /\ phase = "running"

\* Notifications are enabled.
InitBridgeOn(inFlight, messages, channelTypes) ==
    InitConnected(inFlight, messages, channelTypes, SetupConfig)
\* The configured channel is a forum.
InitBridge(inFlight, messages) == InitBridgeOn(inFlight, messages, {"forum"})

\* ---- inbound routing: chat messages against turns and session switches ----
NextRouter ==
    \/ SessionSwitch
    \/ ToolResult(Idle)
    \/ MessageCreate(Idle)
    \/ \E i \in Running : GoctFetched(i)
    \/ \E i \in Running : GoctChannel(i)
    \/ \E i \in Running : GoctCreated(i)
    \/ \E i \in Running : SendSettled(i)
    \/ \E i \in Running : Transcribed(i)
    \/ \E i \in Running : Echoed(i)
    \/ \E i \in Running : ImageDownloaded(i)

InitRouter == InitBridge(MaxTasks, MaxMsgs)
SpecRouter == InitRouter /\ [][NextRouter]_vars

\* ---- threads: resolution, creation, mute and delete ------------------------
NextThreads ==
    \/ ToolResult(Idle)
    \/ ReactionAdd(Idle)
    \/ DiscordUnmute(Idle)
    \/ ThreadDeleted
    \/ \E i \in Running : GoctFetched(i)
    \/ \E i \in Running : GoctChannel(i)
    \/ \E i \in Running : GoctCreated(i)
    \/ \E i \in Running : SendSettled(i)
    \/ \E i \in Running : ReactionFetched(i)
    \/ \E i \in Running : MuteConfirmed(i)
    \/ \E i \in Running : DeleteConfirmed(i)
    \/ \E i \in Running : GraceOver(i)
    \/ \E i \in Running : UnmuteFetched(i)

InitThreads == InitBridge(MaxTasks, MaxMsgs)
SpecThreads == InitThreads /\ [][NextThreads]_vars

\* ---- mute, delete and resolve, one handler at a time ----------------------
NextMute ==
    \/ ToolResult(Idle)
    \/ ReactionAdd(Idle)
    \/ DiscordUnmute(Idle)
    \/ ThreadDeleted
    \/ \E i \in Running : GoctFetched(i)
    \/ \E i \in Running : GoctChannel(i)
    \/ \E i \in Running : GoctCreated(i)
    \/ \E i \in Running : SendSettled(i)
    \/ \E i \in Running : ReactionFetched(i)
    \/ \E i \in Running : MuteConfirmed(i)
    \/ \E i \in Running : DeleteConfirmed(i)
    \/ \E i \in Running : GraceOver(i)
    \/ \E i \in Running : UnmuteFetched(i)

InitMute == InitBridge(1, MaxMsgs)
SpecMute == InitMute /\ [][NextMute]_vars

\* ---- what reaches a thread: uploads, replies to chat messages, reactions,
\* one handler fewer in flight, so that no send was on its way before a mute ----
NextSilence ==
    \/ ToolResult(Idle)
    \/ MessageCreate(Idle)
    \/ ReactionAdd(Idle)
    \/ DiscordUnmute(Idle)
    \/ \E i \in Running : GoctFetched(i)
    \/ \E i \in Running : GoctChannel(i)
    \/ \E i \in Running : GoctCreated(i)
    \/ \E i \in Running : SendSettled(i)
    \/ \E i \in Running : Transcribed(i)
    \/ \E i \in Running : Echoed(i)
    \/ \E i \in Running : ImageDownloaded(i)
    \/ \E i \in Running : ReactionFetched(i)
    \/ \E i \in Running : MuteConfirmed(i)
    \/ \E i \in Running : DeleteConfirmed(i)
    \/ \E i \in Running : GraceOver(i)
    \/ \E i \in Running : UnmuteFetched(i)

InitSilence == InitBridge(MaxTasks - 1, MaxMsgs)
SpecSilence == InitSilence /\ [][NextSilence]_vars

\* ---- inbound: what one chat message becomes, one handler and one message
\* fewer ------------------------------------------------------------------
NextInbound ==
    \/ ToolResult(Idle)
    \/ MessageCreate(Idle)
    \/ \E i \in Running : GoctFetched(i)
    \/ \E i \in Running : GoctChannel(i)
    \/ \E i \in Running : GoctCreated(i)
    \/ \E i \in Running : SendSettled(i)
    \/ \E i \in Running : Transcribed(i)
    \/ \E i \in Running : Echoed(i)
    \/ \E i \in Running : ImageDownloaded(i)

InitInbound == InitBridge(MaxTasks - 1, MaxMsgs - 1)
SpecInbound == InitInbound /\ [][NextInbound]_vars

\* ---- busy: chat messages against the turns of the agent, one handler and
\* one message fewer.  Notifications are toggled off and /discord-test has
\* connected the bot (948-951): /discord-test makes the thread in which the
\* user replies, and agent_end returns at line 767 -----------------------------
NextBusy ==
    \/ AgentStart
    \/ AgentEnd(Idle)
    \/ DiscordTest(Idle)
    \/ MessageCreate(Idle)
    \/ \E i \in Running : GoctFetched(i)
    \/ \E i \in Running : GoctChannel(i)
    \/ \E i \in Running : GoctCreated(i)
    \/ \E i \in Running : SendSettled(i)
    \/ \E i \in Running : Transcribed(i)
    \/ \E i \in Running : Echoed(i)
    \/ \E i \in Running : ImageDownloaded(i)

InitBusy ==
    InitConnected(MaxTasks - 1, MaxMsgs - 1, {"forum"},
                  [SetupConfig EXCEPT !.enabled = FALSE])
SpecBusy == InitBusy /\ [][NextBusy]_vars

\* ---- notifications: agent_end and notify in a forum or a text channel, one
\* handler fewer in flight ---------------------------------------------------
NextNotify ==
    \/ AgentStart
    \/ AgentEnd(Idle)
    \/ DiscordTest(Idle)
    \/ \E i \in Running : AgentEndGenerated(i)
    \/ \E i \in Running : AgentEndRenamed(i)
    \/ \E i \in Running : AgentEndMirror(i)
    \/ \E i \in Running : GoctFetched(i)
    \/ \E i \in Running : GoctChannel(i)
    \/ \E i \in Running : GoctCreated(i)
    \/ \E i \in Running : GoctSeeded(i)
    \/ \E i \in Running : SendSettled(i)

InitNotify == InitBridgeOn(MaxTasks - 1, MaxMsgs, {"forum", "text"})
SpecNotify == InitNotify /\ [][NextNotify]_vars

\* ---- naming: session names, agent_end and /discord-rename, one handler
\* fewer in flight ------------------------------------------------------------
NextNaming ==
    \/ SessionSwitch
    \/ SessionNamed
    \/ AgentStart
    \/ AgentEnd(Idle)
    \/ DiscordRename(Idle)
    \/ \E i \in Running : AgentEndGenerated(i)
    \/ \E i \in Running : AgentEndRenamed(i)
    \/ \E i \in Running : AgentEndMirror(i)
    \/ \E i \in Running : RenameGenerated(i)
    \/ \E i \in Running : Renamed(i)
    \/ \E i \in Running : GoctFetched(i)
    \/ \E i \in Running : GoctChannel(i)
    \/ \E i \in Running : GoctCreated(i)
    \/ \E i \in Running : SendSettled(i)

InitNaming == InitBridge(MaxTasks - 1, MaxMsgs)
SpecNaming == InitNaming /\ [][NextNaming]_vars

\* ---- session names: the turns of one session while the host names it, one
\* handler at a time ----------------------------------------------------------
NextSessionName ==
    \/ SessionNamed
    \/ AgentStart
    \/ AgentEnd(Idle)
    \/ \E i \in Running : AgentEndGenerated(i)
    \/ \E i \in Running : AgentEndRenamed(i)
    \/ \E i \in Running : AgentEndMirror(i)
    \/ \E i \in Running : GoctFetched(i)
    \/ \E i \in Running : GoctChannel(i)
    \/ \E i \in Running : GoctCreated(i)
    \/ \E i \in Running : SendSettled(i)

InitSessionName == InitBridge(1, MaxMsgs)
SpecSessionName == InitSessionName /\ [][NextSessionName]_vars

\* ---- getTranscriber and transcribeVoiceMessage, lines 157-251 ---------------
\* transcriberLoading is "-" for null, else the state of the promise of line
\* 164.  A temporary file is <<ts, extension>>: the paths of lines 214-215.
Stamps == 1..MaxMsgs        \* readings of Date.now() at line 213
OggPath(ts) == <<ts, "ogg">>
WavPath(ts) == <<ts, "wav">>
\* fs.unlinkSync inside try/catch: the file is gone afterwards.
\* A cleanup that leaves the converted file, to test C27 against.
CleanupOggOnly(files, ts) == files \ {OggPath(ts)}

Cleanup(files, ts) == (files \ {OggPath(ts)}) \ {WavPath(ts)}

\* Lines 161-162: neither a model nor a load in flight, so line 164 starts one.
\* A test that overlooks the load in flight, to test C26 against.
StartsLoadUnshared(model, loading) == model = Null
\* A test that takes a failed load for none, to test C40 against.
StartsLoadAgain(model, loading) == model = Null /\ loading \in {"-", "rejected"}

StartsLoad(model, loading) == model = Null /\ loading = "-"

voiceFrame == <<extVars, fileVars, hostVars, platVars, delivered, nextMsg,
                muteDone, warned, crashed, callArgs, callRet, bootThreads>>

\* Lines 244-249: return or catch, then the finally block, in one step.
TvReturn(i, files) ==
    /\ tmpFiles' = Cleanup(files, i.n)
    /\ Done(i)

\* Lines 211-219: the call, up to the await of fetch.
TranscribeVoiceMessageCall(i) ==
    /\ Starts(i)
    /\ \E ts \in Stamps :
           Park(i, [Idle EXCEPT !.kind = "transcribe", !.pc = "tv_fetch", !.n = ts])
    /\ NoRets /\ sent' = {}
    /\ UNCHANGED <<voiceFrame, transcriber, transcriberLoading, tmpFiles, loads>>

\* Lines 219-221: fetch has settled; it threw, answered not ok, or answered.
TvFetched(i) ==
    /\ i.pc = "tv_fetch"
    /\ \E ok \in BOOLEAN :
           IF ok THEN Park(i, [i EXCEPT !.pc = "tv_body"]) /\ UNCHANGED tmpFiles
           ELSE TvReturn(i, tmpFiles)
    /\ NoRets /\ sent' = {}
    /\ UNCHANGED <<voiceFrame, transcriber, transcriberLoading, loads>>

\* Lines 221-233: the body has arrived or failed; writeFileSync writes the
\* download (and may throw once the file exists), ffmpeg is started.
TvBody(i) ==
    /\ i.pc = "tv_body"
    /\ \E ok, written \in BOOLEAN :
           IF ~ok THEN TvReturn(i, tmpFiles)
           ELSE IF ~written THEN TvReturn(i, tmpFiles \cup {OggPath(i.n)})
           ELSE /\ tmpFiles' = tmpFiles \cup {OggPath(i.n)}
                /\ Park(i, [i EXCEPT !.pc = "tv_ffmpeg"])
    /\ NoRets /\ sent' = {}
    /\ UNCHANGED <<voiceFrame, transcriber, transcriberLoading, loads>>

\* Lines 224-239: ffmpeg has exited, with or without an output file;
\* readWavAsFloat32 reads it or throws; getTranscriber is called.
TvConverted(i) ==
    /\ i.pc = "tv_ffmpeg"
    /\ \E ok, output, readable \in BOOLEAN :
       LET files == IF output THEN tmpFiles \cup {WavPath(i.n)} ELSE tmpFiles
       IN  IF ~ok \/ ~output \/ ~readable
               THEN /\ TvReturn(i, files)
                    /\ UNCHANGED <<transcriberLoading, loads>>
           ELSE /\ tmpFiles' = files
                /\ Park(i, [i EXCEPT !.pc = "tv_model", !.ld = transcriberLoading])
                /\ IF StartsLoad(transcriber, transcriberLoading)
                       THEN transcriberLoading' = "pending" /\ loads' = loads + 1
                   ELSE UNCHANGED <<transcriberLoading, loads>>
    /\ NoRets /\ sent' = {}
    /\ UNCHANGED <<voiceFrame, transcriber>>

\* Lines 164-173: the import and the pipeline have settled; 1 is the model.
LoadSettled ==
    /\ transcriberLoading = "pending"
    /\ \E ok \in BOOLEAN :
           IF ok THEN transcriberLoading' = "fulfilled" /\ transcriber' = 1
           ELSE transcriberLoading' = "rejected" /\ UNCHANGED transcriber
    /\ NoRets /\ sent' = {}
    /\ UNCHANGED <<voiceFrame, tasks, tmpFiles, loads>>

\* Line 239: `await getTranscriber()` has settled with the model or with the
\* rejection of the load.
TvModel(i) ==
    /\ i.pc = "tv_model"
    /\ transcriber # Null \/ transcriberLoading \in {"fulfilled", "rejected"}
    /\ IF transcriber # Null
           THEN Park(i, [i EXCEPT !.pc = "tv_asr"]) /\ UNCHANGED tmpFiles
       ELSE TvReturn(i, tmpFiles)
    /\ NoRets /\ sent' = {}
    /\ UNCHANGED <<voiceFrame, transcriber, transcriberLoading, loads>>

\* Lines 240-242: the recognition has settled; text, null or an exception.
TvRecognised(i) ==
    /\ i.pc = "tv_asr"
    /\ TvReturn(i, tmpFiles)
    /\ NoRets /\ sent' = {}
    /\ UNCHANGED <<voiceFrame, transcriber, transcriberLoading, loads>>

NextVoice ==
    \/ TranscribeVoiceMessageCall(Idle)
    \/ LoadSettled
    \/ \E i \in Running : TvFetched(i)
    \/ \E i \in Running : TvBody(i)
    \/ \E i \in Running : TvConverted(i)
    \/ \E i \in Running : TvModel(i)
    \/ \E i \in Running : TvRecognised(i)

\* ---- the pure helpers, called on their own -----------------------------------
\* The module is loaded and no session has started; `args` are the calls made.
InitLibrary(args, inFlight) ==
    /\ InitCommon
    /\ callArgs \in args
    /\ inbox = 0 /\ room = inFlight
    /\ config = NoConfig /\ configFile = NoConfig
    /\ token = FALSE
    /\ chanType = "forum"
    /\ client = Null /\ botUserId = FALSE /\ isForum = FALSE
    /\ clients = [c \in ClientIds |-> "unused"]
    /\ currentSessionFile = Null
    /\ phase = "new"

\* ---- truncateText on every text of up to MaxLen characters -----------------
\* The limits the callers pass are constants (100 at lines 526-540, 761, 1055
\* and 1068, 1900 at line 786) or what is left of a budget that counts down to
\* zero (line 581): every limit from 1 up occurs, scaled here to 1..MaxLen.
TruncateCalls ==
    {[fn |-> "truncateText", text |-> text, maxLen |-> maxLen] :
        text \in Texts, maxLen \in 1..MaxLen}

TruncateTextCall ==
    /\ callArgs.fn = "truncateText" /\ callRet = NoCall
    /\ callRet' = [fn |-> "truncateText",
                   out |-> TruncateText(callArgs.text, callArgs.maxLen)]
    /\ NoRets /\ sent' = {}
    /\ UNCHANGED <<extVars, fileVars, hostVars, platVars, tasks, delivered,
                   nextMsg, muteDone, warned, crashed, transcriber,
                   transcriberLoading, tmpFiles, loads, callArgs, bootThreads>>

NextTruncate == TruncateTextCall
InitTruncate == InitLibrary(TruncateCalls, 0)
SpecTruncate == InitTruncate /\ [][NextTruncate]_vars

\* ---- voice: overlapping calls of transcribeVoiceMessage --------------------
InitVoice == InitLibrary({NoCall}, MaxTasks)
SpecVoice == InitVoice /\ [][NextVoice]_vars

\* ---- loadConfig, loadThreads, loadMuted on every content of their file ------
\* What JSON.parse returns: null, a number, a string, an array of thread ids
\* or an object from session keys to thread ids.
Json(type, items, map) == [type |-> type, items |-> items, map |-> map]
JsonValues ==
    {Json(t, {}, EmptyThreads) : t \in {"null", "number", "string"}}
    \cup {Json("array", ids, EmptyThreads) : ids \in SUBSET ThreadIds}
    \cup {Json("object", {}, m) : m \in [SessionKeys -> ThreadIds \cup {Null}]}
\* A file is missing, holds text that JSON.parse rejects, or holds a value.
FileContents ==
    {[exists |-> FALSE, parses |-> FALSE, value |-> Json("null", {}, EmptyThreads)],
     [exists |-> TRUE, parses |-> FALSE, value |-> Json("null", {}, EmptyThreads)]}
    \cup {[exists |-> TRUE, parses |-> TRUE, value |-> v] : v \in JsonValues}
\* Lines 86-95 and 101-110: the parsed value as it is, or the default.
LoadJson(file, default) ==
    IF file.exists /\ file.parses THEN file.value ELSE default
LoadConfig(file) == LoadJson(file, Json("null", {}, EmptyThreads))
LoadThreads(file) == LoadJson(file, Json("object", {}, EmptyThreads))
\* Lines 117-127: a Set of the array's items, or an empty Set.
LoadMuted(file) ==
    IF file.exists /\ file.parses /\ file.value.type = "array"
        THEN Json("set", file.value.items, EmptyThreads)
    ELSE Json("set", {}, EmptyThreads)

LoadCalls ==
    {[fn |-> fn, file |-> file] :
        fn \in {"loadConfig", "loadThreads", "loadMuted"}, file \in FileContents}

LoadCall ==
    /\ callArgs.fn \in {"loadConfig", "loadThreads", "loadMuted"}
    /\ callRet = NoCall
    /\ callRet' = [fn |-> callArgs.fn,
                   out |-> CASE callArgs.fn = "loadConfig" -> LoadConfig(callArgs.file)
                             [] callArgs.fn = "loadThreads" -> LoadThreads(callArgs.file)
                             [] OTHER -> LoadMuted(callArgs.file)]
    /\ NoRets /\ sent' = {}
    /\ UNCHANGED <<extVars, fileVars, hostVars, platVars, tasks, delivered,
                   nextMsg, muteDone, warned, crashed, transcriber,
                   transcriberLoading, tmpFiles, loads, callArgs, bootThreads>>

InitLoad == InitLibrary(LoadCalls, 0)
SpecLoad == InitLoad /\ [][LoadCall]_vars

\* ---- generateThreadName gathers the conversation: lines 560-587 -------------
\* A message text of n characters.
TextOfLen(n) == [k \in 1..n |-> "a"]
\* The lengths the texts of the branch are drawn from: empty (skipped at 579),
\* short, about the cap of a snippet, and long.
TextLens == {0, 2, SnippetCap - 1, SnippetCap, 1000}
\* The loop of 565-585 from entry k on: the lengths of the snippets it
\* gathers, given what is left of charBudget.
RECURSIVE Gather(_, _, _)
Gather(lens, k, charBudget) ==
    IF k > Len(lens) THEN <<>>
    ELSE IF lens[k] = 0 THEN Gather(lens, k + 1, charBudget)
    ELSE LET cap == IF SnippetCap < charBudget THEN SnippetCap ELSE charBudget
             snippet == TruncateText(TextOfLen(lens[k]), cap)
             left == charBudget - Len(snippet)
         IN  <<Len(snippet)>> \o (IF left <= 0 THEN <<>> ELSE Gather(lens, k + 1, left))
RECURSIVE SumOf(_)
SumOf(seq) == IF seq = <<>> THEN 0 ELSE Head(seq) + SumOf(Tail(seq))

GatherCalls ==
    {[fn |-> "generateThreadName", lens |-> lens] :
        lens \in UNION {[1..n -> TextLens] : n \in 0..MaxEntries}}

GatherCall ==
    /\ callArgs.fn = "generateThreadName" /\ callRet = NoCall
    /\ callRet' = [fn |-> "generateThreadName",
                   out |-> Gather(callArgs.lens, 1, CharBudget)]
    /\ NoRets /\ sent' = {}
    /\ UNCHANGED <<extVars, fileVars, hostVars, platVars, tasks, delivered,
                   nextMsg, muteDone, warned, crashed, transcriber,
                   transcriberLoading, tmpFiles, loads, callArgs, bootThreads>>

InitGather == InitLibrary(GatherCalls, 0)
SpecGather == InitGather /\ [][GatherCall]_vars

\* ---- the process ends and is started again: lines 157-158 and 299-313 -------
\* What saveThreads and saveMuted left in their files (lines 112-114, 129-131).
Saved(value) == [exists |-> TRUE, parses |-> TRUE, value |-> value]
\* Line 301, read by a process that forgets the file, to test C30 against.
ReloadThreadsEmpty(file) == EmptyThreads

ReloadThreads(file) == LoadThreads(Saved(Json("object", {}, file))).map

\* The host process exits with whatever was in flight, and a new one loads the
\* extension: the closure variables are initialised from the three files, the
\* connection of the old process is gone, the platform keeps its threads.
Restart ==
    /\ phase = "running"
    /\ phase' = "new"
    /\ config' = configFile         \* line 300: the object saveConfig wrote
    /\ threads' = ReloadThreads(threadsFile)
    /\ mutedThreads' = LoadMuted(Saved(Json("array", mutedFile, EmptyThreads))).items
    /\ bootThreads' = threads'
    /\ watchedThreads' = EmptyWatched
    /\ client' = Null /\ botUserId' = FALSE /\ isForum' = FALSE
    /\ isAgentBusy' = FALSE /\ agentTurn' = FALSE
    /\ currentSessionFile' = Null
    /\ lastKnownSessionName' = Null /\ threadAutoNamed' = FALSE
    /\ clients' = [c \in ClientIds |-> "unused"]
    /\ transcriber' = Null /\ transcriberLoading' = "-" /\ loads' = 0
    /\ tasks' = EmptyBag
    /\ NoRets /\ sent' = {}
    /\ UNCHANGED <<fileVars, token, sessionFile, sessionName, room, inbox, thr,
                   chanType, createdFor, thrName, delivered, nextMsg, muteDone,
                   warned, crashed, tmpFiles, callArgs, callRet>>

\* ---- persistence: every handler that writes one of the three maps, one
\* handler at a time -----------------------------------------------------------
NextPersist ==
    \/ DiscordToggle(Idle)
    \/ DiscordSetup(Idle)
    \/ ToolResult(Idle)
    \/ ReactionAdd(Idle)
    \/ DiscordUnmute(Idle)
    \/ \E i \in Running : StartBotLogin(i)
    \/ \E i \in Running : StartBotChannel(i)
    \/ \E i \in Running : StopBotDone(i)
    \/ \E i \in Running : GoctFetched(i)
    \/ \E i \in Running : GoctChannel(i)
    \/ \E i \in Running : GoctCreated(i)
    \/ \E i \in Running : SendSettled(i)
    \/ \E i \in Running : ReactionFetched(i)
    \/ \E i \in Running : MuteConfirmed(i)
    \/ \E i \in Running : DeleteConfirmed(i)
    \/ \E i \in Running : GraceOver(i)
    \/ \E i \in Running : UnmuteFetched(i)

InitPersist == InitBridge(1, MaxMsgs)
SpecPersist == InitPersist /\ [][NextPersist]_vars

\* ---- the restart alone: the handlers that bind, resolve, mute and unbind
\* threads, and the restart, one handler at a time ------------------------------
NextRestart ==
    \/ SessionStart(Idle)
    \/ Restart
    \/ ToolResult(Idle)
    \/ ReactionAdd(Idle)
    \/ \E i \in Running : StartBotLogin(i)
    \/ \E i \in Running : StartBotChannel(i)
    \/ \E i \in Running : GoctFetched(i)
    \/ \E i \in Running : GoctChannel(i)
    \/ \E i \in Running : GoctCreated(i)
    \/ \E i \in Running : SendSettled(i)
    \/ \E i \in Running : ReactionFetched(i)
    \/ \E i \in Running : MuteConfirmed(i)
    \/ \E i \in Running : DeleteConfirmed(i)
    \/ \E i \in Running : GraceOver(i)

InitRestart == InitBridge(1, MaxMsgs)
SpecRestart == InitRestart /\ [][NextRestart]_vars

\* ---- the notify paths from a fresh process, configured or not, one handler
\* at a time ------------------------------------------------------------------
NextCold ==
    \/ SessionStart(Idle)
    \/ AgentStart
    \/ AgentEnd(Idle)
    \/ ToolResult(Idle)
    \/ DiscordTest(Idle)
    \/ DiscordSetup(Idle)
    \/ \E i \in Running : StartBotLogin(i)
    \/ \E i \in Running : StartBotChannel(i)
    \/ \E i \in Running : StopBotDone(i)
    \/ \E i \in Running : AgentEndGenerated(i)
    \/ \E i \in Running : AgentEndRenamed(i)
    \/ \E i \in Running : AgentEndMirror(i)
    \/ \E i \in Running : GoctFetched(i)
    \/ \E i \in Running : GoctChannel(i)
    \/ \E i \in Running : GoctCreated(i)
    \/ \E i \in Running : GoctSeeded(i)
    \/ \E i \in Running : SendSettled(i)

InitCold == InitGateway(1)
SpecCold == InitCold /\ [][NextCold]_vars

\* ---- sends and their failures: every notify path against a platform that
\* may refuse any request, one handler at a time -----------------------------
NextSend ==
    \/ AgentStart
    \/ AgentEnd(Idle)
    \/ ToolResult(Idle)
    \/ DiscordTest(Idle)
    \/ ThreadArchived
    \/ \E i \in Running : AgentEndGenerated(i)
    \/ \E i \in Running : AgentEndRenamed(i)
    \/ \E i \in Running : AgentEndMirror(i)
    \/ \E i \in Running : GoctFetched(i)
    \/ \E i \in Running : GoctUnarchived(i)
    \/ \E i \in Running : GoctChannel(i)
    \/ \E i \in Running : GoctCreated(i)
    \/ \E i \in Running : GoctSeeded(i)
    \/ \E i \in Running : SendSettled(i)

InitSend == InitBridgeOn(1, MaxMsgs, {"forum", "text"})
SpecSend == InitSend /\ [][NextSend]_vars

\* ==== the claims ============================================================
\* Handlers that this step parked on the await pc.
ParkedAt(pc) ==
    {t \in BagToSet(tasks') : t.pc = pc /\ CopiesIn(t, tasks') > CopiesIn(t, tasks)}
\* Handlers of kind k that this step resumed.
Resumed(k) ==
    {t \in BagToSet(tasks) : t.kind = k /\ CopiesIn(t, tasks') < CopiesIn(t, tasks)}
\* Handlers that this step resumed from the await pc.
ResumedAt(pc) ==
    {t \in BagToSet(tasks) : t.pc = pc /\ CopiesIn(t, tasks') < CopiesIn(t, tasks)}

\* C1: messages posted in a watched thread of the current session are handed
\* to the agent one at a time, in the order in which their messageCreate
\* events arrived: the arrival numbers in `delivered` increase.
C1_ArrivalOrder ==
    \A a, b \in DOMAIN delivered : a < b => delivered[a] < delivered[b]

\* What agent_end, tool_result, notify and messageCreate post in a thread.
HandlerSends == {"mirror", "embed", "image", "seed", "echo", "error"}
\* C2: once the mute of thread T has completed (and until /discord-unmute),
\* agent_end, tool_result, notify and messageCreate send nothing to T: no
\* mirror, embed, image upload, transcription echo or error reply.
C2_MutedIsSilent ==
    \A m \in sent : m.what \in HandlerSends => ~m.late

\* C3: a plain mute reaction on watched thread T adds T to the Muted Set and
\* leaves the binding map and the index as they are; a mute-and-delete
\* reaction adds T to the Muted Set and removes the binding of T's session and
\* T's index entry and no other binding; no other step of a reaction handler
\* changes the binding map or the index.
C3_MuteKeepsDeleteUnbinds ==
    [][ /\ \A t \in ParkedAt("ra_muted") :
               /\ watchedThreads[t.th] # Null
               /\ t.th \in mutedThreads'
               /\ threads' = threads
               /\ watchedThreads' = watchedThreads
        /\ \A t \in ParkedAt("ra_deleting") :
               /\ watchedThreads[t.th] # Null
               /\ t.th \in mutedThreads'
               /\ watchedThreads' = [watchedThreads EXCEPT ![t.th] = Null]
               /\ threads' = [threads EXCEPT ![watchedThreads[t.th]] = Null]
        /\ (ParkedAt("ra_deleting") = {}
              /\ (ParkedAt("ra_muted") # {} \/ ParkedAt("ra_partial") # {}
                    \/ Resumed("messageReactionAdd") # {}))
             => (threads' = threads /\ watchedThreads' = watchedThreads)
      ]_vars

\* C3 happens: a mute-and-delete reaction has just run on a thread that was
\* bound to the session it was created for; the thread is muted and unbound.
C3_Witness ==
    \E t \in Running :
        /\ t.pc = "ra_deleting"
        /\ t.th \in mutedThreads
        /\ createdFor[t.th] # Null
        /\ threads[createdFor[t.th]] = Null
        /\ watchedThreads[t.th] = Null

\* The threads created for session s that exist and that a map still holds.
KnownThreads(s) ==
    {t \in ThreadIds : /\ createdFor[t] = s
                       /\ Posted(t)
                       /\ (threads[s] = t \/ watchedThreads[t] = s)}
\* C4: a session key has at most one thread that was created for it and is
\* still known to the extension and not deleted, and the index never maps two
\* thread ids to one session key.
C4_OneThreadPerSession ==
    \A s \in SessionKeys :
        /\ Cardinality(KnownThreads(s)) <= 1
        /\ Cardinality({t \in ThreadIds : watchedThreads[t] = s}) <= 1

\* C5: when getOrCreateThread found the bound thread unfetchable (the fetch
\* threw or yielded no thread) and returns a thread, that thread's id differs
\* from the stale id and neither the binding map nor the index holds the stale
\* id any more.
C5_StaleIdForgotten ==
    [][ \A t \in Resumed("tool_result") \cup Resumed("agent_end") :
            (t.pc = "goct_create" /\ t.th # Null /\ goctRet'.r = "thread")
              => /\ goctRet'.th # t.th
                 /\ watchedThreads'[t.th] = Null
                 /\ \A s \in SessionKeys : threads'[s] # t.th
      ]_vars

\* The host's current session is bound to a muted thread.
MutedBinding ==
    threads[sessionFile] # Null /\ threads[sessionFile] \in mutedThreads
GoctAwaits == {"goct_fetch", "goct_unarch", "goct_chan", "goct_create", "goct_seed"}
\* C6: a call of getOrCreateThread for a session whose bound thread is in the
\* Muted Set returns null in the step of the call: nothing is fetched or
\* created, nothing is sent, and no map, file or thread changes.
C6_MutedResolvesNull ==
    [][ (goctRet'.at = "call" /\ MutedBinding) =>
            /\ goctRet'.r = "null"
            /\ \A p \in GoctAwaits : ParkedAt(p) = {}
            /\ sent' = {}
            /\ UNCHANGED <<threads, watchedThreads, mutedThreads, threadsFile,
                           mutedFile, thr, createdFor>>
      ]_vars

\* C6 happens: with a client and a configuration, a call found the session's
\* bound thread muted and returned null.
C6_Witness ==
    /\ goctRet.at = "call" /\ goctRet.r = "null"
    /\ MutedBinding
    /\ client # Null /\ config.present /\ config.enabled

\* C7: a message is handed to the agent only while the session its thread is
\* bound to is the current session.
C7_DeliveredToOwner ==
    turn.n # 0 => turn.owner = turn.cur

\* Clients constructed and neither failed nor destroyed.
LiveClients == {c \in ClientIds : clients[c] \in {"connecting", "ready"}}
\* C8: at most one gateway client is live (constructed and not failed or
\* destroyed), and `client` refers to it.
C8_OneLiveClient ==
    /\ Cardinality(LiveClients) <= 1
    /\ \A c \in LiveClients : client = c

\* C9: a call of startBot made while `client` is a logged-in Client returns
\* success in the step of the call; no Client is constructed, and `client`,
\* the index, isForum and botUserId stay as they are.
C9_StartBotIdempotent ==
    [][ (sbRet'.at = "call" /\ sbRet'.cl # Null /\ clients[sbRet'.cl] = "ready") =>
            /\ sbRet'.r = "ok"
            /\ UNCHANGED <<client, clients, watchedThreads, isForum, botUserId>>
      ]_vars

\* C9 happens: /discord-toggle enabled notifications while the bot was
\* connected, and startBot answered at the call.
C9_Witness ==
    /\ sbRet.at = "call" /\ sbRet.r = "ok" /\ sbRet.by = "discord-toggle"
    /\ sbRet.cl # Null /\ Connected /\ client = sbRet.cl

\* C10: startBot never raises: a missing token, a rejected login and a failed
\* channel fetch each come back as a failure result, and session_start, given
\* one, warns and completes.
C10_FailureIsAResult ==
    /\ ~crashed
    /\ sbRet.r \in {"-", "pending", "ok", "fail"}
    /\ (sbRet.r = "fail" /\ sbRet.by = "session_start") =>
           (warned /\ \A t \in Running : t.kind # "session_start")

\* C10 happens: the channel fetch of session_start's startBot failed after a
\* login that succeeded.
C10_Witness ==
    /\ sbRet.r = "fail" /\ sbRet.at = "channel" /\ sbRet.by = "session_start"
    /\ warned /\ ~crashed

\* C11: when startBot returns a failure, the bot is left disconnected: the
\* Client that this call constructed is not live any more (neither logging in
\* nor logged in), also when the login succeeded and the channel fetch failed.
C11_FailedStartDisconnects ==
    [][ \A t \in ResumedAt("sb_login") \cup ResumedAt("sb_channel") :
            sbRet'.r = "fail" => clients'[t.c] \notin {"connecting", "ready"}
      ]_vars

\* C12: while the gateway is connected, the index is exactly the inverse of
\* the binding map: thread T is indexed under session S if and only if S is
\* bound to T.
C12_IndexInvertsBindings ==
    Connected =>
        \A t \in ThreadIds : \A s \in SessionKeys :
            (watchedThreads[t] = s) <=> (threads[s] = t)

\* The messageCreate handler t is no longer suspended after this step.
Finished(t) == \A u \in BagToSet(tasks') : u.kind = "messageCreate" => u.n # t.n
\* Voice messages whose handler, past a transcription that succeeded, this
\* step brought to its end.
VoiceDone ==
    {t \in ResumedAt("mc_echo") \cup ResumedAt("mc_image") : t.voice /\ Finished(t)}
\* C13: for a voice message whose transcription succeeds with text X, X is
\* echoed into the thread as a reply, and exactly one turn is delivered to the
\* agent; the text of that turn is X, not the message body.
C13_VoiceDeliversTranscript ==
    [][ /\ \A t \in ParkedAt("mc_echo") :
               /\ Msg(t.th, "echo") \in sent'
               /\ delivered' = delivered
        /\ \A t \in VoiceDone :
               /\ turn'.n = t.n
               /\ turn'.parts[1] = TextPart("transcript")
               /\ \A j \in 2..Len(turn'.parts) : turn'.parts[j].type = "image"
               /\ delivered' = Append(delivered, t.n)
               /\ \A j \in DOMAIN delivered : delivered[j] # t.n
      ]_vars

\* C13 happens: a voice message with no body text was transcribed and has
\* just been delivered as one turn.
C13_Witness ==
    /\ turn.n # 0
    /\ turn.parts[1] = TextPart("transcript")
    /\ delivered[Len(delivered)] = turn.n

\* C14: when any step of the transcription fails (download, transcoding, WAV
\* decoding, model load, inference, or an empty transcript),
\* transcribeVoiceMessage returns null: the handler goes on to the echo only
\* after a transcription in which no step failed, and otherwise posts the
\* error reply and ends without delivering a turn, whatever text or images
\* the message carries.
C14_FailedTranscriptionDrops ==
    [][ \A t \in ResumedAt("mc_voice") :
            /\ \A u \in ParkedAt("mc_echo") : u.failed = "none"
            /\ ParkedAt("mc_echo") = {} =>
                   /\ sent' = {Msg(t.th, "error")}
                   /\ Finished(t)
                   /\ turn' = NoTurn
                   /\ delivered' = delivered
      ]_vars

\* C14 happens: the transcription of a voice message failed; the error reply
\* is posted, the handler is gone and the message was not delivered.
C14_Witness ==
    /\ \E m \in sent : m.what = "error"
    /\ tasks = EmptyBag
    /\ nextMsg > Len(delivered)

\* Handlers of messages with images that this step brought to the end of the
\* download loop with no image downloaded.
NoImageDone ==
    {t \in ResumedAt("mc_image") :
        /\ Finished(t)
        /\ \A j \in DOMAIN t.contentParts : t.contentParts[j].type # "image"
        /\ \A j \in DOMAIN turn'.parts : turn'.parts[j].type # "image"}
\* C15: for a message with image attachments of which none can be downloaded,
\* no turn is delivered, whether or not the message also contains text.
C15_NoImageNoTurn ==
    [][ \A t \in NoImageDone : turn' = NoTurn /\ delivered' = delivered ]_vars

\* C15 as the code has it: for a message with image attachments of which none
\* can be downloaded, no turn is delivered when the message has no text; when
\* it has text, one turn is delivered and it consists of the text part alone.
C15_NoImageTextOnly ==
    [][ \A t \in NoImageDone :
            IF t.txt
                THEN /\ turn'.n = t.n
                     /\ turn'.parts = <<TextOf(t)>>
                     /\ delivered' = Append(delivered, t.n)
            ELSE turn' = NoTurn /\ delivered' = delivered
      ]_vars

\* C15 happens: a message with text and images, none of which downloaded,
\* has just been delivered as a multi-part turn of one text part.
C15_Witness ==
    /\ turn.n # 0 /\ turn.multi
    /\ Len(turn.parts) = 1 /\ turn.parts[1].type = "text"

\* The image parts of a sequence of content parts, in their order.
Images(parts) == SelectSeq(parts, LAMBDA p : p.type = "image")
\* Handlers of messages with images that this step brought to the end of the
\* download loop with at least one image downloaded.
SomeImageDone ==
    {t \in ResumedAt("mc_image") :
        /\ Finished(t)
        /\ \/ Images(t.contentParts) # <<>>
           \/ Images(turn'.parts) # <<>>}
\* C16: for a message with image attachments of which at least one downloads,
\* exactly one multi-part turn is delivered.  Its first part is text: the
\* message's text, or the default caption when the message has none.  The
\* parts after it are the images that downloaded, one part each, in
\* attachment order; attachments whose download failed have no part.
C16_ImagesAfterText ==
    [][ /\ \A t \in ResumedAt("mc_image") : \A u \in ParkedAt("mc_image") :
               u.n = t.n =>
                   /\ u.k = t.k + 1
                   /\ u.contentParts \in {t.contentParts,
                                           Append(t.contentParts, ImagePart(u.k))}
        /\ \A t \in SomeImageDone :
               /\ turn'.n = t.n /\ turn'.multi
               /\ delivered' = Append(delivered, t.n)
               /\ \A j \in DOMAIN delivered : delivered[j] # t.n
               /\ turn'.parts[1] = (IF t.txt THEN TextOf(t) ELSE TextPart("caption"))
               /\ Len(turn'.parts) = 1 + Len(Images(turn'.parts))
               /\ Images(turn'.parts) \in {Images(t.contentParts),
                                           Append(Images(t.contentParts), ImagePart(t.imgs))}
               /\ \A a, b \in DOMAIN Images(turn'.parts) :
                      a < b => Images(turn'.parts)[a].k < Images(turn'.parts)[b].k
      ]_vars

\* C16 happens: of a message without text whose first attachment failed to
\* download, the second attachment was delivered behind the default caption.
C16_Witness ==
    /\ turn.n # 0 /\ turn.multi
    /\ turn.parts = <<TextPart("caption"), ImagePart(MaxImgs)>>

\* C17: isAgentBusy is true exactly from an agent_start event to the next
\* agent_end event; a turn handed to the agent is delivered as a follow-up if
\* and only if isAgentBusy is true when it is handed over; and no turn with an
\* empty text is delivered, so a plain-text message with an empty body
\* delivers nothing.
C17_FollowUpWhenBusy ==
    /\ isAgentBusy = agentTurn
    /\ turn.n # 0 =>
           /\ turn.followUp = isAgentBusy
           /\ turn.parts # <<>>
           /\ \A j \in DOMAIN turn.parts : turn.parts[j].src # "empty"

\* C17 happens: a chat message was delivered as a follow-up while the agent
\* was in a turn.
C17_Witness ==
    /\ agentTurn /\ isAgentBusy
    /\ turn.n # 0 /\ turn.followUp

\* agent_end handlers that this step brought, with a thread in hand, to the
\* test of line 795: behind the mirror, or behind getOrCreateThread when the
\* turn left no text.
AtEmbedTest ==
    ResumedAt("ae_mirror")
      \cup {t \in Resumed("agent_end") :
                t.pc \in GoctAwaits /\ ~t.txt /\ goctRet'.r = "thread"}
Made(t) ==
    {new \in ThreadIds :
        \/ t.pc = "goct_seed" /\ new = t.th
        \/ t.pc = "goct_create" /\ thr[new] = "unused" /\ thr'[new] = "open"}
\* C19: when the first notification of a session without a binding (notify
\* or agent_end) has created a thread and getOrCreateThread returns, it has
\* created exactly one thread, and the binding map, the bindings file and the
\* index all relate the session and that thread.
C19_FirstNotificationBinds ==
    [][ \A t \in ResumedAt("goct_create") \cup ResumedAt("goct_seed") :
            (goctRet'.at = "resume" /\ Made(t) # {}) =>
                /\ Cardinality(Made(t)) = 1
                /\ \A new \in Made(t) :
                       /\ threads'[t.sk] = new
                       /\ threadsFile'[t.sk] = new
                       /\ watchedThreads'[new] = t.sk
      ]_vars

\* C20: a mute-and-delete reaction on watched thread T mutes T and persists
\* it, removes and persists the binding and the index entry, posts the
\* countdown, waits for the grace period and deletes the thread, in this
\* order; and once the binding is removed the thread does get deleted: the
\* handler does not end, after the countdown or after the grace period, with
\* the thread still there.
C20_UnboundThenDeleted ==
    [][ /\ \A t \in ParkedAt("ra_deleting") :
               /\ t.th \in mutedThreads' /\ mutedFile' = mutedThreads'
               /\ watchedThreads'[t.th] = Null /\ threadsFile' = threads'
               /\ Msg(t.th, "deleting") \in sent'
               /\ thr' = thr
        /\ \A t \in ResumedAt("ra_deleting") : thr' = thr
        /\ \A t \in ResumedAt("ra_deleting") \cup ResumedAt("ra_grace") :
               ParkedAt("ra_grace") = {} => thr'[t.th] = "deleted"
      ]_vars

\* C21: /discord-unmute for a session whose bound thread T is muted removes
\* T from the Muted Set and persists the set, and leaves the binding map and
\* the index alone, so that getOrCreateThread for the session resolves T
\* again; undoing a plain mute of a thread that was not muted gives back the
\* Muted Set from before the mute, the binding map being the same; and when
\* the session has no binding or its thread is not muted, /discord-unmute
\* changes no map and no file.
C21_UnmuteUndoesMute ==
    [][ /\ \A t \in ParkedAt("um_fetch") :
               /\ threads[currentSessionFile] = t.th /\ t.th \in mutedThreads
               /\ mutedThreads' = mutedThreads \ {t.th}
               /\ mutedFile' = mutedThreads'
               /\ UNCHANGED <<threads, watchedThreads, threadsFile>>
               /\ GoctBegin(client', config', threads', mutedThreads',
                            currentSessionFile')
                      = [r |-> "await", pc |-> "goct_fetch", th |-> t.th]
        /\ \A t \in ParkedAt("ra_muted") :
               t.th \notin mutedThreads =>
                   /\ MutedDelete(mutedThreads', t.th) = mutedThreads
                   /\ threads' = threads
        /\ (\E m \in sent' : m.what \in {"no thread", "not muted"}) =>
               UNCHANGED <<extVars, fileVars>>
      ]_vars

\* C21 happens: the current session's thread was muted a moment ago and
\* /discord-unmute has just taken it out of the Muted Set; the confirmation
\* is on its way.
C21_Witness ==
    \E t \in Running :
        /\ t.pc = "um_fetch"
        /\ threads[currentSessionFile] = t.th
        /\ t.th \notin mutedThreads /\ t.th \notin mutedFile

\* C22: the name made by the language model is asked for at agent_end only
\* while the thread of the current session still carries the name it was
\* created with for an unnamed session: never after a generated or a manual
\* name was given to it, whatever session switches came in between.
C22_GenerateOnlyUnnamed ==
    [][ ParkedAt("ae_generate") # {} =>
            thrName[threads[currentSessionFile]] = "new" ]_vars

\* C23: a name given by /discord-rename <name> is never replaced by the
\* name agent_end asked the language model for.
C23_ManualNameKept ==
    [][ \A t \in ResumedAt("ae_rename") :
            (t.nm = "generated" /\ thrName[t.th] = "manual") =>
                thrName'[t.th] = "manual" ]_vars

\* The step is the first segment of an agent_end handler.
AgentEnds == agentTurn /\ ~agentTurn'
\* agent_end called renameCurrentThread with the name made from the
\* session name.
RenamesFromSession ==
    \E t \in ParkedAt("ae_rename") :
        t.nm = "session" /\ t.th = threads[currentSessionFile]
\* C24: an agent_end that finds the bot enabled and connected and the current
\* session bound renames the thread from the session name exactly when the
\* session has a name that differs from the one seen last, whatever the
\* Auto-Naming Flag is; it then records the name as seen last, and leaves the
\* record alone otherwise.
C24_RenameOnNewSessionName ==
    [][ ( /\ AgentEnds
          /\ config.present /\ config.enabled /\ client # Null
          /\ currentSessionFile # Null
          /\ threads[currentSessionFile] # Null ) =>
            /\ RenamesFromSession <=>
                   (GetSessionName # Null /\ GetSessionName # lastKnownSessionName)
            /\ lastKnownSessionName' =
                   IF RenamesFromSession THEN GetSessionName
                   ELSE lastKnownSessionName ]_vars
\* agent_end is renaming, from the session name, a thread that already
\* carries a generated name: the flag was true when the turn ended.
C24_Witness ==
    \E t \in Running :
        /\ t.pc = "ae_rename" /\ t.nm = "session"
        /\ thrName[t.th] = "generated"
        /\ lastKnownSessionName = GetSessionName

\* C25: truncateText returns a text of at most maxLen characters unchanged,
\* and a longer one as a prefix of it followed by the ellipsis, at most maxLen
\* characters in all.
C25_TruncateFits ==
    callRet # NoCall =>
        LET text == callArgs.text
            out == callRet.out
        IN  IF Len(text) <= callArgs.maxLen THEN out = text
            ELSE /\ Len(out) <= callArgs.maxLen
                 /\ \E n \in 0..Len(text) : out = SubSeq(text, 1, n) \o Ellipsis

\* C26: the load of the recognition model is started at most once: calls of
\* getTranscriber made while it is in flight wait for it, and calls made
\* after it completed start none.
C26_OneLoad ==
    /\ loads <= 1
    /\ (transcriberLoading # "-" \/ transcriber # Null) => loads = 1
\* Two calls wait for the one load in flight.
C26_Witness ==
    /\ transcriberLoading = "pending" /\ loads = 1
    /\ CopiesIn([Idle EXCEPT !.kind = "transcribe", !.pc = "tv_model", !.n = 1],
                tasks) = 1
    /\ CopiesIn([Idle EXCEPT !.kind = "transcribe", !.pc = "tv_model", !.n = 1,
                             !.ld = "pending"], tasks) = 1

\* Calls of transcribeVoiceMessage that this step returned from.
TvReturned ==
    {t \in BagToSet(tasks) :
        t.kind = "transcribe" /\ BagCardinality(tasks') < BagCardinality(tasks)
                             /\ CopiesIn(t, tasks') < CopiesIn(t, tasks)}
\* C27: when transcribeVoiceMessage returns, whichever step failed, neither
\* of its two temporary files exists.
C27_TempFilesRemoved ==
    [][ \A t \in TvReturned :
            OggPath(t.n) \notin tmpFiles' /\ WavPath(t.n) \notin tmpFiles' ]_vars
\* A call is about to return with both of its files on disk.
C27_Witness ==
    \E t \in Running :
        /\ t.pc = "tv_asr"
        /\ OggPath(t.n) \in tmpFiles /\ WavPath(t.n) \in tmpFiles

\* C28: a loader returns a value of the shape the extension works on (null or
\* an object for the configuration, an object for the binding map, a Set for
\* the Muted Set), and the default (null, the empty object, the empty Set)
\* when the file is missing or cannot be parsed.
C28_LoadersDefault ==
    callRet # NoCall =>
        LET file == callArgs.file
            out == callRet.out
            failed == ~file.exists \/ ~file.parses
        IN  CASE callArgs.fn = "loadConfig" ->
                    /\ out.type \in {"null", "object"}
                    /\ failed => out.type = "null"
              [] callArgs.fn = "loadThreads" ->
                    /\ out.type = "object"
                    /\ failed => out.map = EmptyThreads
              [] OTHER ->
                    /\ out.type = "set"
                    /\ (failed \/ file.value.type # "array") => out.items = {}

\* C29: each of the three files holds what is in memory (the configuration,
\* the binding map, the Muted Set) in every state the handlers leave, so that
\* a process started then would load exactly the maps that are in memory.
C29_FilesMirrorMemory ==
    /\ configFile = config
    /\ threadsFile = threads
    /\ mutedFile = mutedThreads
    /\ ReloadThreads(threadsFile) = threads
    /\ LoadMuted(Saved(Json("array", mutedFile, EmptyThreads))).items = mutedThreads
\* No handler is in flight; notifications were toggled off, a session is
\* bound and a thread is muted.
C29_Witness ==
    /\ tasks = EmptyBag
    /\ config.present /\ ~config.enabled
    /\ threads # EmptyThreads
    /\ mutedThreads # {}

\* The step is a restart of the process.
Restarts == phase = "running" /\ phase' = "new"
C31_UnconfiguredNoOp ==
    [][ (~config.present \/ ~token) =>
            /\ \A m \in sent' : m.to = Null
            /\ UNCHANGED <<thr, createdFor, threads, watchedThreads, mutedThreads,
                           threadsFile, mutedFile>>
            /\ \A t \in BagToSet(tasks') :
                   t.kind \in {"agent_end", "tool_result", "discord-test"} =>
                       t.pc \notin {"goct_fetch", "goct_chan", "goct_create",
                                    "goct_seed", "ae_mirror"} ]_vars
\* /discord-test has just answered "not configured" while an agent turn is
\* open in a running session.
C31_Witness ==
    /\ phase = "running" /\ agentTurn
    /\ ~config.present \/ ~token
    /\ Notice("not configured") \in sent

\* C32: when a send fails on the platform (the plain-text mirror, the
\* attention embed, the image upload, the embed of notify, also as the first
\* message of a new thread), the handler does not send it again, nothing is
\* thrown out of the handler, and the connection handle, the binding map, the
\* index and the Muted Set stay as they were.
C32_SendFailureContained ==
    [][ (\/ goctRet'.r = "send failed"
         \/ \E t \in ResumedAt("goct_seed") : goctRet'.r = "null") =>
            /\ UNCHANGED <<client, clients, threads, watchedThreads, mutedThreads,
                           threadsFile, mutedFile>>
            /\ crashed' = crashed
            /\ \A m \in sent' :
                   \/ m.to = Null
                   \/ m.what = "embed" /\ ResumedAt("ae_mirror") # {}
            /\ ParkedAt("goct_seed") = {} /\ ParkedAt("ae_mirror") = {}
            /\ ParkedAt("send") # {} => ResumedAt("ae_mirror") # {}
      ]_vars

\* C32 happens: the embed of /discord-test was refused by the platform while
\* the session had a thread.
C32_Witness ==
    /\ goctRet.r = "send failed" /\ goctRet.by = "discord-test"
    /\ Notice("notify failed") \in sent
    /\ threads[sessionFile] # Null

\* C33: when the thread bound to the session was fetched and is archived,
\* getOrCreateThread un-archives it and returns that same thread, whether or
\* not the un-archive request succeeds: the binding map and the index stay as
\* they were and the handler does not go on to create a thread.
C33_ArchivedThreadReused ==
    [][ \A t \in ResumedAt("goct_unarch") :
            /\ goctRet'.r = "thread" /\ goctRet'.th = t.th
            /\ UNCHANGED <<threads, watchedThreads>>
            /\ ParkedAt("goct_chan") = {}
      ]_vars

\* C34: a reaction changes no state and sends nothing when a bot added it,
\* when its channel is not a thread, when the thread is not in the
\* Watched-Thread Index, or when the emoji is neither the mute nor the
\* mute+delete emoji: a handler goes on to the mute or the delete branch for
\* no such reaction, and one that comes back from reaction.fetch() with such
\* a reaction ends there, leaving every map, file and thread as it was.
C34_IgnoredReaction ==
    [][ /\ \A t \in ParkedAt("ra_muted") \cup ParkedAt("ra_deleting") :
               /\ ~t.bot /\ t.th # Null /\ watchedThreads[t.th] # Null
               /\ t.emoji \in {"mute", "delete"}
        /\ \A t \in ResumedAt("ra_partial") :
               (\/ t.bot \/ t.th = Null \/ t.emoji = "other"
                \/ watchedThreads[t.th] = Null) =>
                   /\ sent' = {}
                   /\ UNCHANGED <<extVars, fileVars, platVars, muteDone, delivered>>
                   /\ ParkedAt("ra_muted") = {} /\ ParkedAt("ra_deleting") = {}
      ]_vars

\* C34 happens: the handler of a bot's mute+delete reaction on a watched
\* thread is under way, and of one in a channel that is no thread.
C34_Witness ==
    /\ \E t \in Running : /\ t.pc = "ra_partial" /\ t.bot /\ t.emoji = "delete"
                           /\ t.th # Null /\ watchedThreads[t.th] # Null
    /\ mutedThreads = {}

\* C35: the conversation text that generateThreadName gathers for the naming
\* prompt keeps to the character budget: the lengths of the gathered snippets
\* add up to at most 2000, for every sequence of message lengths.
C35_BudgetKept ==
    callRet # NoCall => SumOf(callRet.out) <= CharBudget

\* How often the platform has taken the embed of the notify in handler t once
\* this step has resumed it: before the step, plus as the message whose send
\* settled, as the first message whose send settled, or as the first message
\* of the forum thread that threads.create returned.
EmbedsTaken(t) ==
    t.got + (IF \/ t.pc = "send" /\ goctRet'.r = "sent"
                \/ t.pc = "goct_seed" /\ goctRet'.r = "thread"
                \/ t.pc = "goct_create" /\ t.emb /\ chanType = "forum"
                                         /\ goctRet'.r = "thread"
             THEN 1 ELSE 0)
\* C36: when notify(embed) returns true, the platform has taken the embed
\* exactly once, in the thread that is then bound to the session: as a
\* message when the thread existed, as the first message of the new thread
\* when there was no binding, and as a message to the new thread when the
\* binding was stale.
C36_NotifiedOnce ==
    [][ Notice("notified") \in sent' =>
            \E t \in Resumed("discord-test") \cup Resumed("discord-setup") :
                /\ EmbedsTaken(t) = 1
                /\ goctRet'.th # Null /\ goctRet'.th = threads'[t.sk]
                /\ (t.ex = Null) = (t.pc \in {"goct_create", "goct_seed"})
                /\ (t.ex # Null) = (t.pc = "send")
      ]_vars

\* C36 happens: notify returned true after it had found the binding stale,
\* had a new thread created and sent the embed to it.
C36_Witness ==
    /\ Notice("notified") \in sent /\ goctRet.r = "sent"
    /\ goctRet.th = threads[sessionFile]
    /\ \E th \in ThreadIds : th # goctRet.th /\ createdFor[th] = sessionFile

\* C37: whenever notifications are disabled (config.enabled is not true) and
\* no handler is under way, `client` is null and no gateway connection of the
\* process is live, whatever session_start, /discord-toggle, /discord-test,
\* /discord-setup and session_shutdown have done.
C37_DisabledMeansOffline ==
    (~(config.present /\ config.enabled) /\ tasks = EmptyBag) =>
        /\ client = Null
        /\ \A c \in ClientIds : clients[c] \notin {"connecting", "ready"}

\* C38: a mute+delete reaction on thread T removes a binding only if that
\* binding points to T: the binding of a session whose thread is another one
\* (T being an older thread of that session, still in the index) stays.
C38_DeleteUnbindsOnlyOwn ==
    [][ \A t \in ParkedAt("ra_deleting") :
            \A sk \in SessionKeys :
                threads[sk] # t.th => threads'[sk] = threads[sk]
      ]_vars

\* C39: once session_shutdown has completed, `client` is null and no gateway
\* connection that this process opened is live, whatever start attempts came
\* before it, failed ones and ones still under way included.
C39_ShutdownDisconnects ==
    (phase = "shutdown" /\ \A t \in Running : t.kind # "session_shutdown") =>
        /\ client = Null
        /\ LiveClients = {}

\* C40: once the first load of the recognition model has failed, the failure
\* stays for the life of the process: transcriberLoading remains the rejected
\* load and no model appears, no call of getTranscriber starts another load,
\* and every transcription that calls getTranscriber after the failure ends
\* without reaching the recognition, its temporary files removed.
C40_FailedLoadIsPermanent ==
    [][ /\ transcriberLoading = "rejected" =>
               /\ transcriberLoading' = "rejected"
               /\ transcriber' = Null
               /\ loads' = loads /\ loads = 1
        /\ \A t \in ParkedAt("tv_model") :
               t.ld = "rejected" => transcriberLoading' = "rejected"
        /\ \A t \in ResumedAt("tv_model") :
               t.ld = "rejected" =>
                   /\ ParkedAt("tv_asr") = {}
                   /\ BagCardinality(tasks') < BagCardinality(tasks)
                   /\ OggPath(t.n) \notin tmpFiles' /\ WavPath(t.n) \notin tmpFiles'
      ]_vars

\* C40 happens: a voice message reached getTranscriber after the load had
\* failed and waits on the failed load; no second load was started.
C40_Witness ==
    /\ transcriberLoading = "rejected" /\ transcriber = Null /\ loads = 1
    /\ \E t \in Running : t.pc = "tv_model" /\ t.ld = "rejected"

====
